---------------------------- MODULE Spec2Model ----------------------------
(***************************************************************************)
(* A model of the SDP solver core of sdpb: the dense kernels, the          *)
(* block-diagonal matrix algebra, the PMP -> SDP reduction, the            *)
(* Schur-complement assembly and the centering / termination helpers.      *)
(*                                                                         *)
(* Real numbers.  The program computes with arbitrary-precision floats     *)
(* (Real = mpf_class).  The model computes the same expressions exactly:   *)
(* a Real is a triple <<n, d, s>> standing for (n/d)*sqrt(s), with n/d in  *)
(* lowest terms, d > 0 and s a square-free positive integer (s = 1 for a   *)
(* rational).  Every value the modelled kernels produce has this form: a   *)
(* Cholesky factor of a rational matrix has one radicand per column, and   *)
(* the kernels only ever add numbers of equal radicand.                    *)
(*                                                                         *)
(* Matrices are stored as the program stores them: rows, cols and a        *)
(* column-major element vector, element (r, c) at index r + c*rows.        *)
(* Program indices are 0-based; TLA+ sequences are 1-based, hence the +1   *)
(* in get/set.                                                             *)
(***************************************************************************)
EXTENDS Integers, Sequences, FiniteSets, TLC

VARIABLES
  pc,                        \* position of the modelled program
  args,                      \* arguments of the call under way
  ret,                       \* value returned / output parameter written
  sdp,                       \* SDPSolver::sdp
  constraintIndexTuples,     \* SDPSolver::constraintIndexTuples
  x, dx, dualResidues, XInvYDiag,
  X, XInv, XInvCholesky, Y, Z, dX, dY, Rc, primalResidues,
  bilinearPairingsXInv, bilinearPairingsY,
  schurComplement, schurComplementCholesky,
  XInvWorkspace, bilinearPairingsWorkspace

callVars == <<pc, args, ret>>

solverVars ==
  <<sdp, constraintIndexTuples, x, dx, dualResidues, XInvYDiag,
    X, XInv, XInvCholesky, Y, Z, dX, dY, Rc, primalResidues,
    bilinearPairingsXInv, bilinearPairingsY,
    schurComplement, schurComplementCholesky,
    XInvWorkspace, bilinearPairingsWorkspace>>

vars == <<callVars, solverVars>>

\* No SDPSolver object exists (the specifications of the free functions).
NoSolver ==
  /\ sdp = <<>> /\ constraintIndexTuples = <<>>
  /\ x = <<>> /\ dx = <<>> /\ dualResidues = <<>> /\ XInvYDiag = <<>>
  /\ X = <<>> /\ XInv = <<>> /\ XInvCholesky = <<>> /\ Y = <<>> /\ Z = <<>>
  /\ dX = <<>> /\ dY = <<>> /\ Rc = <<>> /\ primalResidues = <<>>
  /\ bilinearPairingsXInv = <<>> /\ bilinearPairingsY = <<>>
  /\ schurComplement = <<>> /\ schurComplementCholesky = <<>>
  /\ XInvWorkspace = <<>> /\ bilinearPairingsWorkspace = <<>>

(***************************************************************************)
(* Real arithmetic                                                         *)
(***************************************************************************)
IAbs(i) == IF i < 0 THEN -i ELSE i

RECURSIVE GCD(_, _)
GCD(a, b) == IF b = 0 THEN a ELSE GCD(b, a % b)

\* (n/d)*sqrt(s) in normal form; d /= 0, s square-free.
Real(n, d, s) ==
  IF n = 0 THEN <<0, 1, 1>>
  ELSE LET g  == GCD(IAbs(n), IAbs(d))
           sg == IF d < 0 THEN -1 ELSE 1
       IN  <<sg * (n \div g), sg * (d \div g), s>>

Q(n, d) == Real(n, d, 1)
RInt(n) == <<n, 1, 1>>
Zero == <<0, 1, 1>>
One == <<1, 1, 1>>

IsZero(a) == a[1] = 0
IsRational(a) == a[3] = 1

\* x + y: the operands have one radicand (or one of them is 0).
RAdd(a, b) ==
  IF IsZero(a) THEN b
  ELSE IF IsZero(b) THEN a
  ELSE IF a[3] = b[3]
       THEN LET g == GCD(a[2], b[2])
                l == (a[2] \div g) * b[2]
            IN  Real(a[1] * (l \div a[2]) + b[1] * (l \div b[2]), l, a[3])
       ELSE CHOOSE v \in {} : TRUE

RNeg(a) == <<-a[1], a[2], a[3]>>
RSub(a, b) == RAdd(a, RNeg(b))

\* x * y: sqrt(s1)*sqrt(s2) = g*sqrt((s1/g)*(s2/g)) for g = gcd(s1, s2).
RMul(a, b) ==
  IF IsZero(a) \/ IsZero(b) THEN Zero
  ELSE LET g  == GCD(a[3], b[3])
           g1 == GCD(IAbs(a[1]), b[2])
           g2 == GCD(IAbs(b[1]), a[2])
           n  == (a[1] \div g1) * (b[1] \div g2)
           d  == (a[2] \div g2) * (b[2] \div g1)
       IN  Real(n * g, d, (a[3] \div g) * (b[3] \div g))

\* 1/x = d*sqrt(s)/(n*s); x /= 0.
RInv(a) == Real(a[2], a[1] * a[3], a[3])
RDiv(a, b) == RMul(a, RInv(b))

RSign(a) == IF a[1] > 0 THEN 1 ELSE IF a[1] < 0 THEN -1 ELSE 0
RLt(a, b) == RSign(RSub(a, b)) < 0
RLe(a, b) == RSign(RSub(a, b)) <= 0
RGt(a, b) == RLt(b, a)
RGe(a, b) == RLe(b, a)
RAbs(a) == <<IAbs(a[1]), a[2], a[3]>>

\* The largest k with k*k dividing n (n > 0), by trial division from i
\* upwards; n has no factor below i.
RECURSIVE SquarePart(_, _)
SquarePart(n, i) ==
  IF i > n \div i THEN 1
  ELSE IF n % (i * i) = 0 THEN i * SquarePart(n \div (i * i), i)
  ELSE IF n % i = 0 THEN SquarePart(n \div i, i + 1)
  ELSE SquarePart(n, i + 1)

\* sqrt(n/d) of a rational n/d >= 0: with n = a*a*sn and d = b*b*sd,
\* sqrt(n/d) = a*sqrt(sn*sd)/(b*sd).
RSqrt(a) ==
  IF IsZero(a) THEN Zero
  ELSE LET pn == SquarePart(a[1], 2)
           pd == SquarePart(a[2], 2)
           sn == a[1] \div (pn * pn)
           sd == a[2] \div (pd * pd)
       IN  Real(pn, pd * sd, sn * sd)

min(a, b) == IF RLt(b, a) THEN b ELSE a
max(a, b) == IF RLt(a, b) THEN b ELSE a


(***************************************************************************)
(* Vector and Matrix (main.cpp)                                            *)
(***************************************************************************)
\* Vector(n, a): n elements, each a.
Vector(n, a) == [i \in 1..n |-> a]

RECURSIVE maxAbsLoop(_, _, _)
maxAbsLoop(v, i, m) ==
  IF i > Len(v) THEN m
  ELSE maxAbsLoop(v, i + 1, IF RGt(RAbs(v[i]), m) THEN RAbs(v[i]) ELSE m)

\* What a read outside the stored elements of a vector can find: some
\* number, here an integer of magnitude at most StrayRange.
StrayRange == 2

StrayValues == {RInt(n) : n \in -StrayRange..StrayRange}

\* max = abs(v[0]); then every element is compared against max.  v[0] is
\* read whether or not v stores an element: for an empty v the read is
\* outside the vector and finds stray.
maxAbsVectorElement(v, stray) ==
  maxAbsLoop(v, 1, RAbs(IF Len(v) > 0 THEN v[1] ELSE stray))

Matrix(rows, cols) ==
  [rows |-> rows, cols |-> cols, elements |-> Vector(rows * cols, Zero)]

get(A, r, c) == A.elements[r + c * A.rows + 1]
set(A, r, c, a) == [A EXCEPT !.elements[r + c * A.rows + 1] = a]
addElt(A, r, c, a) == set(A, r, c, RAdd(get(A, r, c), a))

Matrix_setZero(A) == [A EXCEPT !.elements = Vector(Len(A.elements), Zero)]

RECURSIVE Matrix_addDiagonalLoop(_, _, _)
Matrix_addDiagonalLoop(A, c, i) ==
  IF i >= A.rows THEN A
  ELSE Matrix_addDiagonalLoop(
         [A EXCEPT !.elements[i * (A.rows + 1) + 1] = RAdd(@, c)], c, i + 1)

Matrix_addDiagonal(A, c) == Matrix_addDiagonalLoop(A, c, 0)

Matrix_setIdentity(A) == Matrix_addDiagonal(Matrix_setZero(A), One)

\* Real tmp = (get(r,c)+get(c,r))/2;
symmetrize_tmp_unhalved(A, r, c) == RAdd(get(A, r, c), get(A, c, r))
symmetrize_tmp(A, r, c) == RDiv(RAdd(get(A, r, c), get(A, c, r)), RInt(2))

RECURSIVE Matrix_symmetrizeLoop(_, _, _)
Matrix_symmetrizeLoop(A, r, c) ==
  IF r >= A.rows THEN A
  ELSE IF c >= r THEN Matrix_symmetrizeLoop(A, r + 1, 0)
  ELSE LET tmp == symmetrize_tmp(A, r, c)
       IN  Matrix_symmetrizeLoop(set(set(A, r, c, tmp), c, r, tmp), r, c + 1)

Matrix_symmetrize(A) == Matrix_symmetrizeLoop(A, 0, 0)

Matrix_maxAbsElement(A, stray) == maxAbsVectorElement(A.elements, stray)

maxReal(a, b) == IF RGt(a, b) THEN a ELSE b

(***************************************************************************)
(* BlockDiagonalMatrix (main.cpp)                                          *)
(***************************************************************************)
RECURSIVE SumSeq(_)
SumSeq(q) == IF q = <<>> THEN 0 ELSE Head(q) + SumSeq(Tail(q))

\* The constructor: a zero diagonal prefix and zero square blocks.
BlockDiagonalMatrix(diagonalSize, blockSizes) ==
  [dim          |-> diagonalSize + SumSeq(blockSizes),
   diagonalPart |-> Vector(diagonalSize, Zero),
   blocks       |-> [b \in 1..Len(blockSizes) |->
                       Matrix(blockSizes[b], blockSizes[b])]]

BlockDiagonalMatrix_setZero(A) ==
  [A EXCEPT !.diagonalPart = Vector(Len(A.diagonalPart), Zero),
            !.blocks = [b \in 1..Len(A.blocks) |-> Matrix_setZero(A.blocks[b])]]

BlockDiagonalMatrix_addDiagonal(A, c) ==
  [A EXCEPT !.diagonalPart = [i \in 1..Len(A.diagonalPart) |->
                                RAdd(A.diagonalPart[i], c)],
            !.blocks = [b \in 1..Len(A.blocks) |->
                          Matrix_addDiagonal(A.blocks[b], c)]]

BlockDiagonalMatrix_setIdentity(A) ==
  BlockDiagonalMatrix_addDiagonal(BlockDiagonalMatrix_setZero(A), One)

\* Only the blocks are visited; diagonalPart is not touched.
BlockDiagonalMatrix_symmetrize(A) ==
  [A EXCEPT !.blocks = [b \in 1..Len(A.blocks) |->
                          Matrix_symmetrize(A.blocks[b])]]

RECURSIVE BlockDiagonalMatrix_maxAbsLoop(_, _, _, _)
BlockDiagonalMatrix_maxAbsLoop(A, b, m, stray) ==
  IF b > Len(A.blocks) THEN m
  ELSE LET tmp == Matrix_maxAbsElement(A.blocks[b], stray)
       IN  BlockDiagonalMatrix_maxAbsLoop(A, b + 1, IF RGt(tmp, m) THEN tmp ELSE m,
                                          stray)

BlockDiagonalMatrix_maxAbsElement(A, stray) ==
  BlockDiagonalMatrix_maxAbsLoop(A, 1, maxAbsVectorElement(A.diagonalPart, stray),
                                 stray)

(***************************************************************************)
(* dualityGap (main.cpp)                                                   *)
(***************************************************************************)
dualityGap_signed(objPrimal, objDual) ==
  RDiv(RSub(objPrimal, objDual),
       maxReal(RDiv(RAdd(RAbs(objPrimal), RAbs(objDual)), RInt(2)), One))

dualityGap(objPrimal, objDual) ==
  RDiv(RAbs(RSub(objPrimal, objDual)),
       maxReal(RDiv(RAdd(RAbs(objPrimal), RAbs(objDual)), RInt(2)), One))

\* Objective values k/2, |k| <= GapRange.
GapRange == 5
GapValues == {Q(k, 2) : k \in -GapRange..GapRange}

GapInit ==
  /\ pc = "call"
  /\ args \in [objPrimal : GapValues, objDual : GapValues]
  /\ ret = <<>>
  /\ NoSolver

GapCall ==
  /\ pc = "call"
  /\ ret' = dualityGap(args.objPrimal, args.objDual)
  /\ pc' = "done"
  /\ UNCHANGED <<args, solverVars>>

GapNext == GapCall

SpecGap == GapInit /\ [][GapNext]_vars

\* C8: dualityGap(objP, objD) = |objP - objD| / max((|objP|+|objD|)/2, 1):
\* the divisor is at least 1 (so the quotient never exceeds the numerator),
\* the result lies in [0, 2], is symmetric in its arguments and is 0 exactly
\* when objP = objD.
C8_DualityGap ==
  pc = "done" =>
    LET p   == args.objPrimal
        d   == args.objDual
        num == RAbs(RSub(p, d))
        avg == RDiv(RAdd(RAbs(p), RAbs(d)), RInt(2))
        div == IF RGe(avg, One) THEN avg ELSE One
    IN  /\ RGe(div, One)
        /\ ret = RDiv(num, div)
        /\ RLe(ret, num)
        /\ RGe(ret, Zero)
        /\ RLe(ret, RInt(2))
        /\ ret = dualityGap(d, p)
        /\ (IsZero(ret) <=> p = d)

\* Different objectives of small magnitude: the divisor is clamped to 1.
C8_Witness ==
  /\ pc = "done"
  /\ args.objPrimal # args.objDual
  /\ RLt(RDiv(RAdd(RAbs(args.objPrimal), RAbs(args.objDual)), RInt(2)), One)
  /\ ret = RAbs(RSub(args.objPrimal, args.objDual))

(***************************************************************************)
(* Sums of Reals, in loop order                                            *)
(***************************************************************************)
RECURSIVE RSumFrom(_, _, _)
RSumFrom(q, i, acc) ==
  IF i > Len(q) THEN acc ELSE RSumFrom(q, i + 1, RAdd(acc, q[i]))

RSum(q) == RSumFrom(q, 1, Zero)

(***************************************************************************)
(* frobeniusProductOfSums and corrector_centering_parameter                *)
(***************************************************************************)
\* (X + dX) . (Y + dY) for one block: the strict upper triangle twice, then
\* the diagonal.
Matrix_frobeniusProductOfSums(A, dA, B, dB) ==
  LET term(r, c) == RMul(RAdd(get(A, r, c), get(dA, r, c)),
                         RAdd(get(B, r, c), get(dB, r, c)))
      upper == RSum([c \in 1..A.cols |->
                       RSum([r \in 1..(c - 1) |-> term(r - 1, c - 1)])])
      diag  == RSum([r \in 1..A.rows |-> term(r - 1, r - 1)])
  IN  RAdd(RMul(upper, RInt(2)), diag)

frobeniusProductOfSums(A, dA, B, dB) ==
  RAdd(RSum([i \in 1..Len(A.diagonalPart) |->
               RMul(RAdd(A.diagonalPart[i], dA.diagonalPart[i]),
                    RAdd(B.diagonalPart[i], dB.diagonalPart[i]))]),
       RSum([b \in 1..Len(A.blocks) |->
               Matrix_frobeniusProductOfSums(A.blocks[b], dA.blocks[b],
                                             B.blocks[b], dB.blocks[b])]))

\* A variant that clamps the infeasible branch to 1 as well.
corrector_centering_parameter_clamped(parameters, A, dA, B, dB, mu, is_primal_dual_feasible) ==
  LET r    == RDiv(frobeniusProductOfSums(A, dA, B, dB),
                   RMul(mu, RInt(A.dim)))
      beta == IF RLt(r, One) THEN RMul(r, r) ELSE r
  IN  IF is_primal_dual_feasible
      THEN min(max(parameters.feasible_centering_parameter, beta), One)
      ELSE min(max(parameters.infeasible_centering_parameter, beta), One)

corrector_centering_parameter(parameters, A, dA, B, dB, mu, is_primal_dual_feasible) ==
  LET r    == RDiv(frobeniusProductOfSums(A, dA, B, dB),
                   RMul(mu, RInt(A.dim)))
      beta == IF RLt(r, One) THEN RMul(r, r) ELSE r
  IN  IF is_primal_dual_feasible
      THEN min(max(parameters.feasible_centering_parameter, beta), One)
      ELSE max(parameters.infeasible_centering_parameter, beta)

\* A block-diagonal matrix with one diagonal entry v and one 1x1 block (v).
ScalarMatrix(v) ==
  [dim |-> 2, diagonalPart |-> <<v>>,
   blocks |-> <<[rows |-> 1, cols |-> 1, elements |-> <<v>>]>>]

\* dX = k, dY = k/2 for |k| <= CenteringRange.
CenteringRange == 1

CenteringInit ==
  /\ pc = "call"
  /\ args \in
       [parameters : [feasible_centering_parameter   : {Q(1, 10), Q(3, 2)},
                      infeasible_centering_parameter : {Q(3, 10), RInt(2)}],
        X  : {ScalarMatrix(RInt(1)), ScalarMatrix(RInt(2))},
        dX : {ScalarMatrix(RInt(k)) : k \in -CenteringRange..CenteringRange},
        Y  : {ScalarMatrix(One)},
        dY : {ScalarMatrix(Q(k, 2)) : k \in -CenteringRange..CenteringRange},
        mu : {Q(1, 2), One, RInt(2)},
        is_primal_dual_feasible : BOOLEAN]
  /\ ret = <<>>
  /\ NoSolver

CenteringCall ==
  /\ pc = "call"
  /\ ret' = corrector_centering_parameter(args.parameters, args.X, args.dX,
                                          args.Y, args.dY, args.mu,
                                          args.is_primal_dual_feasible)
  /\ pc' = "done"
  /\ UNCHANGED <<args, solverVars>>

CenteringNext == CenteringCall

SpecCentering == CenteringInit /\ [][CenteringNext]_vars

\* The ratio r of the call under way: <X+dX, Y+dY> / (mu * X.dim), written
\* out for the scalar matrices of CenteringInit (two entries each).
CenteringRatio ==
  LET xv == RAdd(args.X.diagonalPart[1], args.dX.diagonalPart[1])
      yv == RAdd(args.Y.diagonalPart[1], args.dY.diagonalPart[1])
  IN  RDiv(RMul(RInt(2), RMul(xv, yv)), RMul(args.mu, RInt(2)))

\* C6: with beta = r*r if r < 1 and beta = r otherwise, the result is
\* min(max(feasible_centering_parameter, beta), 1) when feasible and
\* max(infeasible_centering_parameter, beta) otherwise; so the feasible
\* result never exceeds 1 and the infeasible result is never below
\* infeasible_centering_parameter and is not clamped from above.
C6_CorrectorCentering ==
  pc = "done" =>
    LET r    == CenteringRatio
        beta == IF RLt(r, One) THEN RMul(r, r) ELSE r
        f    == args.parameters.feasible_centering_parameter
        g    == args.parameters.infeasible_centering_parameter
    IN  IF args.is_primal_dual_feasible
        THEN /\ RLe(ret, One)
             /\ ret = (IF RGe(beta, f)
                       THEN (IF RLe(beta, One) THEN beta ELSE One)
                       ELSE (IF RLe(f, One) THEN f ELSE One))
        ELSE /\ RGe(ret, g)
             /\ RGe(ret, beta)
             /\ ret = (IF RGe(beta, g) THEN beta ELSE g)

\* An infeasible call whose ratio exceeds 1 and the parameter: the result
\* is the ratio itself, above 1.
C6_Witness ==
  /\ pc = "done"
  /\ ~args.is_primal_dual_feasible
  /\ RGt(CenteringRatio, One)
  /\ RGt(CenteringRatio, args.parameters.infeasible_centering_parameter)
  /\ ret = CenteringRatio
  /\ RGt(ret, One)

(***************************************************************************)
(* feasibilityError and predictorCenteringParameter                        *)
(***************************************************************************)
\* SolverParameters(): betaStar(0.1), betaBar(0.2), epsilonStar(1e-7),
\* epsilonBar(1e-7).
SolverParameters ==
  [betaStar    |-> Q(1, 10),
   betaBar     |-> Q(1, 5),
   epsilonStar |-> Q(1, 10000000),
   epsilonBar  |-> Q(1, 10000000)]

feasibilityError(dualRes, primalRes, stray) ==
  maxReal(BlockDiagonalMatrix_maxAbsElement(primalRes, stray),
          maxAbsVectorElement(dualRes, stray))

\* A variant that takes equality with the threshold as feasible.
predictorCenteringParameter_le(params, feasErr) ==
  IF RLe(feasErr, params.epsilonBar) THEN Zero ELSE params.betaBar

predictorCenteringParameter(params, feasErr) ==
  IF RLt(feasErr, params.epsilonBar) THEN Zero ELSE params.betaBar

\* Residue entries k * epsilonBar / 2 for |k| <= ResidueRange.
ResidueRange == 3
ResidueValues ==
  {RMul(Q(k, 2), SolverParameters.epsilonBar) : k \in -ResidueRange..ResidueRange}

PredictorInit ==
  /\ pc = "call"
  /\ \E d1 \in ResidueValues, d2 \in ResidueValues,
        p1 \in ResidueValues, p2 \in ResidueValues :
       args = [parameters     |-> SolverParameters,
               dualResidues   |-> <<d1, d2>>,
               primalResidues |->
                 [dim |-> 2, diagonalPart |-> <<p1>>,
                  blocks |-> <<[rows |-> 1, cols |-> 1, elements |-> <<p2>>]>>]]
  /\ ret = <<>>
  /\ NoSolver

\* The two lines of computeSearchDirection that choose betaPredictor.
PredictorCall ==
  /\ pc = "call"
  /\ \E stray \in StrayValues :
       LET feasErr == feasibilityError(args.dualResidues, args.primalResidues, stray)
       IN  ret' = predictorCenteringParameter(args.parameters, feasErr)
  /\ pc' = "done"
  /\ UNCHANGED <<args, solverVars>>

PredictorNext == PredictorCall

SpecPredictor == PredictorInit /\ [][PredictorNext]_vars

\* The entries of the residues of the call under way.
PrimalEntries ==
  {args.primalResidues.diagonalPart[i] :
     i \in 1..Len(args.primalResidues.diagonalPart)}
  \cup UNION {{args.primalResidues.blocks[b].elements[i] :
                 i \in 1..Len(args.primalResidues.blocks[b].elements)} :
              b \in 1..Len(args.primalResidues.blocks)}
DualEntries == {args.dualResidues[i] : i \in 1..Len(args.dualResidues)}

\* C7 as stated: the predictor centering parameter is 0 exactly when
\* primal_error <= epsilon and dual_error <= epsilon (equality counts as
\* feasible), and the infeasible centering parameter otherwise.
C7_AsStated ==
  pc = "done" =>
    LET eps      == args.parameters.epsilonBar
        feasible == /\ \A e \in PrimalEntries : RLe(RAbs(e), eps)
                    /\ \A e \in DualEntries : RLe(RAbs(e), eps)
    IN  ret = (IF feasible THEN Zero ELSE args.parameters.betaBar)

\* C7 amended: the predictor centering parameter is 0 exactly when both the
\* primal and the dual error are strictly below epsilonBar (equality with
\* the threshold counts as infeasible), and betaBar in every other case.
C7_PredictorCentering ==
  pc = "done" =>
    LET eps      == args.parameters.epsilonBar
        feasible == /\ \A e \in PrimalEntries : RLt(RAbs(e), eps)
                    /\ \A e \in DualEntries : RLt(RAbs(e), eps)
    IN  ret = (IF feasible THEN Zero ELSE args.parameters.betaBar)

\* The error equals the threshold and the result is betaBar.
C7_Witness ==
  /\ pc = "done"
  /\ \A e \in PrimalEntries \cup DualEntries :
       RLe(RAbs(e), args.parameters.epsilonBar)
  /\ \E e \in PrimalEntries \cup DualEntries :
       RAbs(e) = args.parameters.epsilonBar
  /\ ret = args.parameters.betaBar

(***************************************************************************)
(* BlockDiagonalMatrix::symmetrize                                         *)
(***************************************************************************)
\* Block entries range over -SymmetrizeRange..SymmetrizeRange.
SymmetrizeRange == 1
SymmetrizeValues == {RInt(k) : k \in -SymmetrizeRange..SymmetrizeRange}

\* A diagonal prefix, a 2x2 block and a 3x3 block built from four entries
\* (column-major element vectors).
SymmetrizeInput(a, b, c, d) ==
  [dim |-> 7, diagonalPart |-> <<a, d>>,
   blocks |-> <<[rows |-> 2, cols |-> 2, elements |-> <<a, b, c, d>>],
                [rows |-> 3, cols |-> 3,
                 elements |-> <<a, d, c, b, a, d, c, b, a>>]>>]

SymmetrizeInit ==
  /\ pc = "start"
  /\ \E a \in SymmetrizeValues, b \in SymmetrizeValues,
        c \in SymmetrizeValues, d \in SymmetrizeValues :
       args = SymmetrizeInput(a, b, c, d)
  /\ ret = args
  /\ NoSolver

\* ret is the matrix symmetrize() is called on; args keeps its first value.
SymmetrizeCall ==
  /\ pc \in {"start", "once"}
  /\ ret' = BlockDiagonalMatrix_symmetrize(ret)
  /\ pc' = IF pc = "start" THEN "once" ELSE "twice"
  /\ UNCHANGED <<args, solverVars>>

SymmetrizeNext == SymmetrizeCall

SpecSymmetrize == SymmetrizeInit /\ [][SymmetrizeNext]_vars

\* C10: symmetrize replaces every block M by (M + M^T)/2 and changes neither
\* the diagonal prefix nor the diagonal entries of a block; afterwards every
\* block has M[r][c] = M[c][r], and a second call changes nothing (the state
\* after two calls is still (M + M^T)/2 of the first matrix).
C10_Symmetrize ==
  pc \in {"once", "twice"} =>
    /\ ret.diagonalPart = args.diagonalPart
    /\ ret.dim = args.dim
    /\ Len(ret.blocks) = Len(args.blocks)
    /\ \A b \in 1..Len(args.blocks) :
         LET M == args.blocks[b]
             S == ret.blocks[b]
         IN  /\ S.rows = M.rows /\ S.cols = M.cols
             /\ \A r \in 0..(M.rows - 1), c \in 0..(M.cols - 1) :
                  /\ get(S, r, c) =
                       RDiv(RAdd(get(M, r, c), get(M, c, r)), RInt(2))
                  /\ get(S, r, c) = get(S, c, r)
                  /\ (r = c => get(S, r, c) = get(M, r, c))
    /\ BlockDiagonalMatrix_symmetrize(ret) = ret

\* Two calls on a matrix whose blocks were not symmetric.
C10_Witness ==
  /\ pc = "twice"
  /\ \A b \in 1..Len(args.blocks) :
       get(args.blocks[b], 0, 1) # get(args.blocks[b], 1, 0)
  /\ ret # args

(***************************************************************************)
(* IndexTuple and initializeConstraintIndices (SDP.h; the same loops       *)
(* build SDPSolver::constraintIndexTuples in main.cpp)                     *)
(***************************************************************************)
\* A constructor that stores r and s the other way round.
IndexTuple_swapped(p, r, s, k) == [p |-> p, r |-> s, s |-> r, k |-> k]

IndexTuple(p, r, s, k) == [p |-> p, r |-> r, s |-> s, k |-> k]

\* The s, r, k loops of one group: the tuples pushed, numbered from p.
RECURSIVE groupIndexTuples(_, _, _, _, _, _, _)
groupIndexTuples(dimension, degree, s, r, k, p, acc) ==
  IF s >= dimension THEN acc
  ELSE IF r > s THEN groupIndexTuples(dimension, degree, s + 1, 0, 0, p, acc)
  ELSE IF k > degree THEN groupIndexTuples(dimension, degree, s, r + 1, 0, p, acc)
  ELSE groupIndexTuples(dimension, degree, s, r, k + 1, p + 1,
                        Append(acc, IndexTuple(p, r, s, k)))

\* The j loop: p runs on from group to group.
RECURSIVE constraintIndicesLoop(_, _, _, _, _)
constraintIndicesLoop(dimensions, degrees, j, p, acc) ==
  IF j > Len(dimensions) THEN acc
  ELSE LET ts == groupIndexTuples(dimensions[j], degrees[j], 0, 0, 0, p, <<>>)
       IN  constraintIndicesLoop(dimensions, degrees, j + 1, p + Len(ts),
                                 Append(acc, ts))

initializeConstraintIndices(dimensions, degrees) ==
  constraintIndicesLoop(dimensions, degrees, 1, 0, <<>>)

\* Up to MaxGroups groups, dimensions 0..MaxDimension, degrees 0..MaxDegree.
MaxGroups == 2
MaxDimension == 2
MaxDegree == 2

IndexInit ==
  /\ pc = "call"
  /\ \E n \in 0..MaxGroups :
       args \in [dimensions : [1..n -> 0..MaxDimension],
                 degrees    : [1..n -> 0..MaxDegree]]
  /\ ret = <<>>
  /\ NoSolver

IndexCall ==
  /\ pc = "call"
  /\ ret' = initializeConstraintIndices(args.dimensions, args.degrees)
  /\ pc' = "done"
  /\ UNCHANGED <<args, solverVars>>

IndexNext == IndexCall

SpecIndex == IndexInit /\ [][IndexNext]_vars

\* (j, s, r, k) before (j', s', r', k') in lexicographic order.
LexLess(j1, t1, j2, t2) ==
  \/ j1 < j2
  \/ j1 = j2 /\ t1.s < t2.s
  \/ j1 = j2 /\ t1.s = t2.s /\ t1.r < t2.r
  \/ j1 = j2 /\ t1.s = t2.s /\ t1.r = t2.r /\ t1.k < t2.k

\* C1: every tuple of group j has 0 <= r <= s < dimensions[j] and
\* 0 <= k <= degrees[j]; read in lexicographic (j, s, r, k) order the p
\* fields are 0, 1, 2, ... without gap or repeat; group j holds
\* (degrees[j]+1) * dimensions[j] * (dimensions[j]+1) / 2 tuples.
C1_IndexTuples ==
  pc = "done" =>
    LET all == {<<j, i>> : j \in 1..Len(ret), i \in 1..MaxDimension * (MaxDimension + 1) * (MaxDegree + 1)}
        pos == {q \in all : q[2] <= Len(ret[q[1]])}
        T(q) == ret[q[1]][q[2]]
    IN  /\ Len(ret) = Len(args.dimensions)
        /\ \A q \in pos :
             /\ 0 <= T(q).r /\ T(q).r <= T(q).s
             /\ T(q).s < args.dimensions[q[1]]
             /\ 0 <= T(q).k /\ T(q).k <= args.degrees[q[1]]
        /\ {T(q).p : q \in pos} = 0..(Cardinality(pos) - 1)
        /\ \A q1 \in pos, q2 \in pos :
             (T(q1).p < T(q2).p) <=> LexLess(q1[1], T(q1), q2[1], T(q2))
        /\ \A j \in 1..Len(ret) :
             2 * Len(ret[j]) =
               (args.degrees[j] + 1) * args.dimensions[j] * (args.dimensions[j] + 1)

\* Two groups, the first of dimension 2 (so a tuple with r < s) and positive
\* degree; the second group's numbering runs on from the first.
C1_Witness ==
  /\ pc = "done"
  /\ Len(ret) = 2
  /\ args.dimensions[1] = 2 /\ args.degrees[1] >= 1
  /\ \E i \in 1..Len(ret[1]) : ret[1][i].r < ret[1][i].s /\ ret[1][i].k = 1
  /\ Len(ret[2]) >= 1 /\ ret[2][1].p = Len(ret[1])

(***************************************************************************)
(* tensorMatrixCongruence                                                  *)
(***************************************************************************)
\* "work = a b'": every entry of work is written once.
tensorMatrixCongruence_work(a, b, work) ==
  [work EXCEPT !.elements =
     [e \in 1..(work.rows * work.cols) |->
        LET r          == (e - 1) % work.rows
            c          == (e - 1) \div work.rows
            bCol       == c % b.cols
            aColOffset == (c \div b.cols) * b.rows
        IN  RSum([k \in 1..b.rows |->
                    RMul(get(a, r, aColOffset + (k - 1)), get(b, k - 1, bCol))])]]

\* "result = b'^T work": the upper triangle is computed, the lower mirrors it.
tensorMatrixCongruence_result(b, work, result) ==
  [result EXCEPT !.elements =
     [e \in 1..(result.rows * result.cols) |->
        LET r0            == (e - 1) % result.rows
            c0            == (e - 1) \div result.rows
            r             == IF r0 <= c0 THEN r0 ELSE c0
            c             == IF r0 <= c0 THEN c0 ELSE r0
            bCol          == r % b.cols
            workRowOffset == (r \div b.cols) * b.rows
        IN  RSum([k \in 1..b.rows |->
                    RMul(get(b, k - 1, bCol), get(work, workRowOffset + (k - 1), c))])]]

\* The pair <<work, result>> left by tensorMatrixCongruence(a, b, work, result).
tensorMatrixCongruence(a, b, work, result) ==
  CHOOSE wr \in {<<w, tensorMatrixCongruence_result(b, w, result)>> :
                   w \in {tensorMatrixCongruence_work(a, b, work)}} : TRUE

\* A matrix from its rows.
MatrixOfRows(rs) ==
  [rows |-> Len(rs), cols |-> Len(rs[1]),
   elements |-> [e \in 1..(Len(rs) * Len(rs[1])) |->
                   rs[((e - 1) % Len(rs)) + 1][((e - 1) \div Len(rs)) + 1]]]

\* testTensorCongruence: a = 1 (4x4), b = ((2, 4, 6), (3, 5, 7)).
testTensorCongruence ==
  [a |-> Matrix_setIdentity(Matrix(4, 4)),
   b |-> MatrixOfRows(<<<<RInt(2), RInt(4), RInt(6)>>,
                        <<RInt(3), RInt(5), RInt(7)>>>>)]

\* Entries of a range over -CongruenceRange..CongruenceRange, entries of b
\* over 0..CongruenceRange.
CongruenceRange == 1

\* Symmetric a of size 2x2 with b of size 1x2 (l = 1, n = 2, m = 2), and
\* symmetric a of size 2x2 with b of size 2x1 (l = 2, n = 1, m = 1).
CongruenceInputs ==
  LET A == {RInt(k) : k \in -CongruenceRange..CongruenceRange}
      B == {RInt(k) : k \in 0..CongruenceRange}
  IN  {[a |-> MatrixOfRows(<<<<a00, a01>>, <<a01, a11>>>>),
        b |-> IF wide THEN MatrixOfRows(<<<<b0, b1>>>>)
                      ELSE MatrixOfRows(<<<<b0>>, <<b1>>>>)] :
         <<a00, a01, a11, b0, b1, wide>> \in A \X A \X A \X B \X B \X BOOLEAN}
  \cup {testTensorCongruence}

CongruenceInit ==
  /\ pc = "call"
  /\ args \in CongruenceInputs
  /\ ret = <<>>
  /\ NoSolver

\* work and result are sized as testTensorCongruence sizes them.
CongruenceCall ==
  /\ pc = "call"
  /\ LET m      == args.a.rows \div args.b.rows
         work   == Matrix(args.a.rows, args.b.cols * m)
         result == Matrix(args.b.cols * m, args.b.cols * m)
     IN  ret' = tensorMatrixCongruence(args.a, args.b, work, result)[2]
  /\ pc' = "done"
  /\ UNCHANGED <<args, solverVars>>

CongruenceNext == CongruenceCall

SpecCongruence == CongruenceInit /\ [][CongruenceNext]_vars

\* The standard Kronecker product b (x) I_m: entry (k*m + i, c*m + i2) is
\* b[k][c] when i = i2 and 0 otherwise.
KroneckerWithIdentity(b, m) ==
  [rows |-> b.rows * m, cols |-> b.cols * m,
   elements |-> [e \in 1..(b.rows * m * b.cols * m) |->
                   LET R == (e - 1) % (b.rows * m)
                       C == (e - 1) \div (b.rows * m)
                   IN  IF R % m = C % m THEN get(b, R \div m, C \div m)
                       ELSE Zero]]

\* The dense product K^T a K.
DenseCongruence(a, K) ==
  [rows |-> K.cols, cols |-> K.cols,
   elements |-> [e \in 1..(K.cols * K.cols) |->
                   LET R == (e - 1) % K.cols
                       C == (e - 1) \div K.cols
                   IN  RSum([u \in 1..K.rows |->
                         RSum([v \in 1..K.rows |->
                           RMul(get(K, u - 1, R),
                                RMul(get(a, u - 1, v - 1), get(K, v - 1, C)))])])]]

\* C4: for symmetric a of size (l*m)x(l*m) and b of size l x n the result of
\* tensorMatrixCongruence equals the dense product (b (x) I_m)^T a (b (x) I_m)
\* with the standard Kronecker product (row index k*m + i); in particular for
\* a = I_4 and b = ((2, 4, 6), (3, 5, 7)).
C4_Congruence ==
  pc = "done" =>
    ret = DenseCongruence(args.a, KroneckerWithIdentity(args.b, args.a.rows \div args.b.rows))

(***************************************************************************)
(* Polynomial, PolynomialVectorMatrix, bootstrapSDP                        *)
(***************************************************************************)
\* Polynomial::operator(): Horner's rule from the leading coefficient down.
RECURSIVE Polynomial_evalLoop(_, _, _, _)
Polynomial_evalLoop(coeffs, xv, i, y) ==
  IF i < 0 THEN y
  ELSE Polynomial_evalLoop(coeffs, xv, i - 1, RAdd(RMul(y, xv), coeffs[i + 1]))

Polynomial_eval(coeffs, xv) ==
  Polynomial_evalLoop(coeffs, xv, Len(coeffs) - 2, coeffs[Len(coeffs)])

\* PolynomialVectorMatrix: rows, cols and elements[r + c*rows], each element
\* a sequence of polynomials (coefficient sequences).
PolynomialVectorMatrix_get(m, r, c) == m.elements[r + c * m.rows + 1]

RECURSIVE IntMaxFrom(_, _, _)
IntMaxFrom(q, i, d) ==
  IF i > Len(q) THEN d
  ELSE IntMaxFrom(q, i + 1, IF q[i] > d THEN q[i] ELSE d)

PolynomialVectorMatrix_degree(m) ==
  IntMaxFrom([e \in 1..Len(m.elements) |->
                IntMaxFrom([n \in 1..Len(m.elements[e]) |->
                              Len(m.elements[e][n]) - 1], 1, 0)], 1, 0)

naturalNumbers(n) == [i \in 1..n |-> RInt(i)]

RECURSIVE RPower(_, _)
RPower(a, n) == IF n = 0 THEN One ELSE RMul(RPower(a, n - 1), a)

\* Entry (n, k) is xs[k]^n, times sqrt(xs[k]) with halfShift.
monomialAlgebraBasis(d1, d, xs, halfShift) ==
  [rows |-> d1 + 1, cols |-> d + 1,
   elements |-> [e \in 1..((d1 + 1) * (d + 1)) |->
                   LET n  == (e - 1) % (d1 + 1)
                       k  == (e - 1) \div (d1 + 1)
                       x0 == IF halfShift THEN RSqrt(xs[k + 1]) ELSE One
                   IN  RMul(x0, RPower(xs[k + 1], n))]]

\* C++ integer division truncates toward zero: (0 - 1)/2 = 0.
TruncDiv(a, b) == IF a >= 0 THEN a \div b ELSE -((-a) \div b)

\* The rows of polMatrixValues of one matrix m, in the order of the s, r, k
\* loops: row p holds m(r, s)[n] evaluated at xs[k].
RECURSIVE polMatrixRows(_, _, _, _, _, _, _, _)
polMatrixRows(m, degree, objDimension, xs, s, r, k, acc) ==
  IF s >= m.cols THEN acc
  ELSE IF r > s THEN polMatrixRows(m, degree, objDimension, xs, s + 1, 0, 0, acc)
  ELSE IF k > degree THEN polMatrixRows(m, degree, objDimension, xs, s, r + 1, 0, acc)
  ELSE polMatrixRows(m, degree, objDimension, xs, s, r, k + 1,
         Append(acc, [n \in 1..objDimension |->
                        Polynomial_eval(PolynomialVectorMatrix_get(m, r, s)[n], xs[k + 1])]))

\* The second loop over positiveMatrixPols: bases, blocks and rows so far.
RECURSIVE bootstrapSDP_loop(_, _, _, _, _)
bootstrapSDP_loop(positiveMatrixPols, objDimension, xs, i, acc) ==
  IF i > Len(positiveMatrixPols) THEN acc
  ELSE
    LET m      == positiveMatrixPols[i]
        degree == PolynomialVectorMatrix_degree(m)
        delta1 == TruncDiv(degree, 2)
        delta2 == TruncDiv(degree - 1, 2)
        first  == Len(acc.bilinearBases)
        bases1 == Append(acc.bilinearBases,
                         monomialAlgebraBasis(delta1, degree, xs, FALSE))
        bases2 == IF delta2 >= 0
                  THEN Append(bases1, monomialAlgebraBasis(delta2, degree, xs, TRUE))
                  ELSE bases1
        blocks == IF delta2 >= 0 THEN <<first, first + 1>> ELSE <<first>>
    IN  bootstrapSDP_loop(positiveMatrixPols, objDimension, xs, i + 1,
          [bilinearBases |-> bases2,
           blocks        |-> Append(acc.blocks, blocks),
           rows          |-> polMatrixRows(m, degree, objDimension, xs, 0, 0, 0, acc.rows)])

bootstrapSDP(objective, normalization, positiveMatrixPols, xs) ==
  LET objDimension == Len(objective)
      dimensions == [i \in 1..Len(positiveMatrixPols) |-> positiveMatrixPols[i].cols] \o <<1>>
      degrees == [i \in 1..Len(positiveMatrixPols) |->
                    PolynomialVectorMatrix_degree(positiveMatrixPols[i])] \o <<0>>
      numConstraints ==
        SumSeq([i \in 1..Len(positiveMatrixPols) |->
                  ((degrees[i] + 1) * dimensions[i] * (dimensions[i] + 1)) \div 2]) + 1
      filled == bootstrapSDP_loop(positiveMatrixPols, objDimension, xs, 1,
                  [bilinearBases |-> <<>>, blocks |-> <<>>, rows |-> <<>>])
      rows == Append(filled.rows, normalization)
  IN  [bilinearBases   |-> filled.bilinearBases,
       numConstraints  |-> numConstraints,
       objDimension    |-> objDimension,
       polMatrixValues |->
         [rows |-> numConstraints, cols |-> objDimension,
          elements |-> [e \in 1..(numConstraints * objDimension) |->
                          rows[((e - 1) % numConstraints) + 1]
                              [((e - 1) \div numConstraints) + 1]]],
       affineConstants |-> [q \in 1..numConstraints |->
                              IF q = numConstraints THEN One ELSE Zero],
       objective       |-> objective,
       dimensions      |-> dimensions,
       degrees         |-> degrees,
       blocks          |-> Append(filled.blocks, <<>>)]

\* dims.push_back(...) for each j and each b in blocks[j], in that order.
RECURSIVE psdMatrixBlockDimsLoop(_, _, _)
psdMatrixBlockDimsLoop(s, j, dims) ==
  IF j > Len(s.dimensions) THEN dims
  ELSE psdMatrixBlockDimsLoop(s, j + 1,
         dims \o [q \in 1..Len(s.blocks[j]) |->
                    s.bilinearBases[s.blocks[j][q] + 1].rows * s.dimensions[j]])

psdMatrixBlockDims(s) == psdMatrixBlockDimsLoop(s, 1, <<>>)

RECURSIVE bilinearPairingBlockDimsLoop(_, _, _)
bilinearPairingBlockDimsLoop(s, j, dims) ==
  IF j > Len(s.dimensions) THEN dims
  ELSE bilinearPairingBlockDimsLoop(s, j + 1,
         dims \o [q \in 1..Len(s.blocks[j]) |->
                    s.bilinearBases[s.blocks[j][q] + 1].cols * s.dimensions[j]])

bilinearPairingBlockDims(s) == bilinearPairingBlockDimsLoop(s, 1, <<>>)

(***************************************************************************)
(* diagonalCongruenceTranspose, constraintMatrixWeightedSum, printSDPData  *)
(***************************************************************************)
\* The pointer &v[p]: *(d + n) is v[p + n].
Pointer(v, p) == [n \in 0..(Len(v) - p - 1) |-> v[p + n + 1]]

\* V D V^T added onto sub-block (blockRow, blockCol) of result (addElt in
\* place of set).
diagonalCongruenceTranspose_accumulating(d, V, blockRow, blockCol, result) ==
  [result EXCEPT !.elements =
     [e \in 1..(result.rows * result.cols) |->
        LET R == (e - 1) % result.rows
            C == (e - 1) \div result.rows
            i == R - blockRow * V.rows
            j == C - blockCol * V.rows
        IN  IF i >= 0 /\ i < V.rows /\ j >= 0 /\ j < V.rows
            THEN LET p == IF i >= j THEN i ELSE j
                     q == IF i >= j THEN j ELSE i
                 IN  RAdd(result.elements[e],
                          RSum([n \in 1..V.cols |->
                                  RMul(RMul(d[n - 1], get(V, p, n - 1)),
                                       get(V, q, n - 1))]))
            ELSE result.elements[e]]]

\* Sub-block (blockRow, blockCol) of result is overwritten with V D V^T;
\* no other entry of result is written.
diagonalCongruenceTranspose(d, V, blockRow, blockCol, result) ==
  [result EXCEPT !.elements =
     [e \in 1..(result.rows * result.cols) |->
        LET R == (e - 1) % result.rows
            C == (e - 1) \div result.rows
            i == R - blockRow * V.rows
            j == C - blockCol * V.rows
        IN  IF i >= 0 /\ i < V.rows /\ j >= 0 /\ j < V.rows
            THEN LET p == IF i >= j THEN i ELSE j
                     q == IF i >= j THEN j ELSE i
                 IN  RSum([n \in 1..V.cols |->
                             RMul(RMul(d[n - 1], get(V, p, n - 1)), get(V, q, n - 1))])
            ELSE result.elements[e]]]

\* The loop over b in sdp.blocks[j] for one (r, s).
RECURSIVE constraintMatrixWeightedSum_b(_, _, _, _, _, _, _, _)
constraintMatrixWeightedSum_b(s0, xv, p, j, r, s, q, blocks) ==
  IF q > Len(s0.blocks[j]) THEN blocks
  ELSE LET b == s0.blocks[j][q] + 1
       IN  constraintMatrixWeightedSum_b(s0, xv, p, j, r, s, q + 1,
             [blocks EXCEPT ![b] =
                diagonalCongruenceTranspose(Pointer(xv, p), s0.bilinearBases[b],
                                            r, s, blocks[b])])

\* The j, s, r loops: only sub-blocks with r <= s are written.
RECURSIVE constraintMatrixWeightedSum_loop(_, _, _, _, _, _, _)
constraintMatrixWeightedSum_loop(s0, xv, j, s, r, p, blocks) ==
  IF j > Len(s0.dimensions) THEN blocks
  ELSE IF s >= s0.dimensions[j]
       THEN constraintMatrixWeightedSum_loop(s0, xv, j + 1, 0, 0, p, blocks)
  ELSE IF r > s
       THEN constraintMatrixWeightedSum_loop(s0, xv, j, s + 1, 0, p, blocks)
  ELSE constraintMatrixWeightedSum_loop(s0, xv, j, s, r + 1, p + s0.degrees[j] + 1,
         constraintMatrixWeightedSum_b(s0, xv, p, j, r, s, 1, blocks))

constraintMatrixWeightedSum(s0, xv, result) ==
  BlockDiagonalMatrix_symmetrize(
    [result EXCEPT
       !.diagonalPart =
          [n \in 1..Len(result.diagonalPart) |->
             RSum([p \in 1..Len(xv) |->
                     RMul(xv[p], get(s0.polMatrixValues, p - 1, n - 1))])],
       !.blocks = constraintMatrixWeightedSum_loop(s0, xv, 1, 0, 0, 0, result.blocks)])

\* The matrix F that printSDPData prints as F[t.p + 1] for tuple t of group j.
printSDPData_F(s0, j, t) ==
  LET F == BlockDiagonalMatrix(s0.objDimension, psdMatrixBlockDims(s0))
      inGroup(b) == \E q \in 1..Len(s0.blocks[j]) : s0.blocks[j][q] = b - 1
      filled(b) ==
        LET delta == s0.bilinearBases[b].rows
            qk(e) == s0.bilinearBases[b].elements[t.k * delta + e + 1]
        IN  [F.blocks[b] EXCEPT !.elements =
               [i \in 1..(F.blocks[b].rows * F.blocks[b].cols) |->
                  LET e == ((i - 1) % F.blocks[b].rows) - t.r * delta
                      f == ((i - 1) \div F.blocks[b].rows) - t.s * delta
                  IN  IF e >= 0 /\ e < delta /\ f >= 0 /\ f < delta
                      THEN RMul(qk(e), qk(f)) ELSE Zero]]
  IN  [F EXCEPT
         !.diagonalPart = [n \in 1..s0.polMatrixValues.cols |->
                             get(s0.polMatrixValues, t.p, n - 1)],
         !.blocks = [b \in 1..Len(F.blocks) |->
                       IF inGroup(b) THEN Matrix_symmetrize(filled(b))
                       ELSE F.blocks[b]]]

(***************************************************************************)
(* The SDPs of the model: bootstrapSDP on a few small inputs               *)
(***************************************************************************)
\* A rows x cols PolynomialVectorMatrix with one polynomial per element.
PolynomialVectorMatrix(rows, cols, pols) ==
  [rows |-> rows, cols |-> cols, elements |-> [e \in 1..Len(pols) |-> <<pols[e]>>]]

\* 1x1 matrices of degree 0, 1 and 2 and a 2x2 matrix of degree 0.
Pol_1x1_deg0 == PolynomialVectorMatrix(1, 1, <<<<RInt(1)>>>>)
Pol_1x1_deg1 == PolynomialVectorMatrix(1, 1, <<<<RInt(1), RInt(1)>>>>)
Pol_1x1_deg2 == PolynomialVectorMatrix(1, 1, <<<<RInt(1), RInt(0), RInt(1)>>>>)
Pol_2x2_deg0 ==
  PolynomialVectorMatrix(2, 2, <<<<RInt(0)>>, <<RInt(1)>>, <<RInt(1)>>, <<RInt(0)>>>>)

\* Normalization entries 1..MaxNormalization.
MaxNormalization == 2

\* parseBootstrapSDP: the sample points are naturalNumbers(100).
NumSamplePoints == 100

SDPInputs ==
  [objective          : {<<RInt(1)>>},
   normalization      : {<<RInt(n)>> : n \in 1..MaxNormalization},
   positiveMatrixPols : {<<Pol_1x1_deg0>>, <<Pol_1x1_deg1>>, <<Pol_2x2_deg0>>,
                         <<Pol_1x1_deg0, Pol_1x1_deg1>>,
                         <<Pol_2x2_deg0, Pol_1x1_deg0>>}]

parseBootstrapSDP(in) ==
  bootstrapSDP(in.objective, in.normalization, in.positiveMatrixPols,
               naturalNumbers(NumSamplePoints))

(***************************************************************************)
(* constraintMatrixWeightedSum on unit vectors                             *)
(***************************************************************************)
\* The p-th unit vector of length n (p counted from 0).
UnitVector(n, p) == [q \in 1..n |-> IF q = p + 1 THEN One ELSE Zero]

\* Calls of constraintMatrixWeightedSum on the same result matrix.
MaxWeightedSums == 2

\* The inputs of the solver and a group of degree 2.
WeightedSumInputs ==
  SDPInputs \cup
    [objective          : {<<RInt(1)>>},
     normalization      : {<<RInt(n)>> : n \in 1..MaxNormalization},
     positiveMatrixPols : {<<Pol_1x1_deg2>>, <<Pol_2x2_deg0, Pol_1x1_deg2>>}]

\* result is constructed as the solver constructs dX and primalResidues.
WeightedSumInit ==
  /\ pc = "call"
  /\ \E in \in WeightedSumInputs :
       LET s0 == parseBootstrapSDP(in)
       IN  /\ args = [sdp |-> s0,
                      constraintIndexTuples |->
                        initializeConstraintIndices(s0.dimensions, s0.degrees),
                      p |-> 0, calls |-> 0]
           /\ ret = BlockDiagonalMatrix(s0.objDimension, psdMatrixBlockDims(s0))
  /\ NoSolver

\* ret is the result argument; it keeps its content from call to call, as dX
\* and primalResidues do in the solver.
WeightedSumCall ==
  /\ args.calls < MaxWeightedSums
  /\ \E p \in 0..(args.sdp.numConstraints - 1) :
       /\ ret' = constraintMatrixWeightedSum(
                   args.sdp, UnitVector(args.sdp.numConstraints, p), ret)
       /\ args' = [args EXCEPT !.p = p, !.calls = @ + 1]
  /\ pc' = "done"
  /\ UNCHANGED solverVars

WeightedSumNext == WeightedSumCall

SpecWeightedSum == WeightedSumInit /\ [][WeightedSumNext]_vars

\* C3: for every constraint index p, constraintMatrixWeightedSum called with
\* the p-th unit vector leaves result equal to the matrix F_p that
\* printSDPData builds for the tuple of index p.
C3_WeightedSumOfUnitVector ==
  pc = "done" =>
    \A j \in 1..Len(args.constraintIndexTuples) :
      \A i \in 1..Len(args.constraintIndexTuples[j]) :
        LET t == args.constraintIndexTuples[j][i]
        IN  t.p = args.p => ret = printSDPData_F(args.sdp, j, t)

(***************************************************************************)
(* Cholesky kernels: Rpotrf, Rtrsm, Rtrmm and the functions built on them  *)
(***************************************************************************)
\* Rpotrf("Lower", n, A, n, &info), unblocked: column j gets its pivot
\* ajj = A[j][j] - sum_k A[j][k]^2; a pivot <= 0 is stored, info = j + 1 and
\* the factorization stops; otherwise A[j][j] = sqrt(ajj) and the column
\* below it is updated and scaled by 1/sqrt(ajj).
RECURSIVE Rpotrf_loop(_, _)
Rpotrf_loop(A, j) ==
  IF j >= A.rows THEN [A |-> A, info |-> 0]
  ELSE
    LET dot(i) == RSum([k \in 1..j |-> RMul(get(A, i, k - 1), get(A, j, k - 1))])
        ajj    == RSub(get(A, j, j), dot(j))
    IN  IF RLe(ajj, Zero) THEN [A |-> set(A, j, j, ajj), info |-> j + 1]
        ELSE
          LET d == RSqrt(ajj)
          IN  Rpotrf_loop(
                [A EXCEPT !.elements =
                   [e \in 1..(A.rows * A.cols) |->
                      LET i == (e - 1) % A.rows
                          c == (e - 1) \div A.rows
                      IN  IF c = j /\ i = j THEN d
                          ELSE IF c = j /\ i > j
                               THEN RMul(RSub(get(A, i, j), dot(i)), RInv(d))
                          ELSE A.elements[e]]],
                j + 1)

Rpotrf(A) == Rpotrf_loop(A, 0)

\* result = copy of a, factored in place (info is not read), upper triangle
\* set to 0.
choleskyDecomposition(a, result) ==
  CHOOSE L \in {[f EXCEPT !.elements =
                   [e \in 1..(f.rows * f.cols) |->
                      IF (e - 1) % f.rows < (e - 1) \div f.rows THEN Zero
                      ELSE f.elements[e]]] :
                 f \in {Rpotrf([result EXCEPT !.elements = a.elements]).A}} : TRUE

\* Rtrsm("Left", "Lower", "NoTranspose", "NonUnitDiagonal", ..., alpha = 1):
\* forward substitution on one column of B, given as a function on 0..m-1.
RECURSIVE Rtrsm_column(_, _, _)
Rtrsm_column(A, col, k) ==
  IF k >= A.rows THEN col
  ELSE IF IsZero(col[k]) THEN Rtrsm_column(A, col, k + 1)
  ELSE LET bk == RDiv(col[k], get(A, k, k))
       IN  Rtrsm_column(A,
             [i \in DOMAIN col |->
                IF i = k THEN bk
                ELSE IF i > k THEN RSub(col[i], RMul(bk, get(A, i, k)))
                ELSE col[i]],
             k + 1)

Rtrsm(A, B) ==
  LET solved(c) == Rtrsm_column(A, [i \in 0..(B.rows - 1) |-> get(B, i, c)], 0)
  IN  [B EXCEPT !.elements =
         [e \in 1..(B.rows * B.cols) |->
            solved((e - 1) \div B.rows)[(e - 1) % B.rows]]]

inverseLowerTriangular(a, result) == Rtrsm(a, Matrix_setIdentity(result))

\* The pair <<work, result>> left by inverseCholesky(a, work, result).
inverseCholesky(a, work, result) ==
  CHOOSE wr \in {<<w, inverseLowerTriangular(w, result)>> :
                   w \in {choleskyDecomposition(a, work)}} : TRUE

\* The product without the terms of the diagonal of A.
Rtrmm_Transpose_strict(A, B) ==
  [B EXCEPT !.elements =
     [e \in 1..(B.rows * B.cols) |->
        LET i == (e - 1) % B.rows
            j == (e - 1) \div B.rows
        IN  RSum([k \in 1..(B.rows - i - 1) |->
                    RMul(get(A, i + k, i), get(B, i + k, j))])]]

\* Rtrmm("Left", "Lower", "Transpose", "NonUnitDiag", ..., alpha = 1):
\* B := A^T B for lower-triangular A.
Rtrmm_Transpose(A, B) ==
  [B EXCEPT !.elements =
     [e \in 1..(B.rows * B.cols) |->
        LET i == (e - 1) % B.rows
            j == (e - 1) \div B.rows
        IN  RSum([k \in 1..(B.rows - i) |->
                    RMul(get(A, i + k - 1, i), get(B, i + k - 1, j))])]]

\* <<work, invCholesky, inverse>> left by the Matrix overload.
Matrix_inverseCholeskyAndInverse(a, work, invCholesky, inverse) ==
  CHOOSE wci \in {<<wi[1], wi[2],
                     Rtrmm_Transpose(wi[2], [inverse EXCEPT !.elements = wi[2].elements])>> :
                    wi \in {inverseCholesky(a, work, invCholesky)}} : TRUE

\* <<work, AInvCholesky, AInv>> left by the BlockDiagonalMatrix overload.
inverseCholeskyAndInverse(A, work, AInvCholesky, AInv) ==
  LET bs == [b \in 1..Len(A.blocks) |->
               Matrix_inverseCholeskyAndInverse(A.blocks[b], work.blocks[b],
                                                AInvCholesky.blocks[b], AInv.blocks[b])]
  IN  <<[work EXCEPT !.blocks = [b \in 1..Len(A.blocks) |-> bs[b][1]]],
        [AInvCholesky EXCEPT
           !.diagonalPart = [i \in 1..Len(A.diagonalPart) |->
                               RInv(RSqrt(A.diagonalPart[i]))],
           !.blocks = [b \in 1..Len(A.blocks) |-> bs[b][2]]],
        [AInv EXCEPT
           !.diagonalPart = [i \in 1..Len(A.diagonalPart) |->
                               RInv(A.diagonalPart[i])],
           !.blocks = [b \in 1..Len(A.blocks) |-> bs[b][3]]]>>

\* <<workspace, result>> left by computeBilinearPairings.
computeBilinearPairings(A, bilinearBases, workspace, result) ==
  LET cs == [b \in 1..Len(bilinearBases) |->
               tensorMatrixCongruence(A.blocks[b], bilinearBases[b],
                                      workspace[b], result.blocks[b])]
  IN  <<[b \in 1..Len(workspace) |->
           IF b <= Len(bilinearBases) THEN cs[b][1] ELSE workspace[b]],
        [result EXCEPT !.blocks =
           [b \in 1..Len(result.blocks) |->
              IF b <= Len(bilinearBases) THEN cs[b][2] ELSE result.blocks[b]]]>>

componentProduct(u, v, result) ==
  [i \in 1..Len(result) |-> IF i <= Len(u) THEN RMul(u[i], v[i]) ELSE result[i]]

(***************************************************************************)
(* addSchurBlocks                                                          *)
(***************************************************************************)
\* tmp without the division by 4.
addSchurBlocks_tmp_unscaled(s0, TX, TY, j, t1, t2) ==
  LET ej    == s0.degrees[j] + 1
      ej_r1 == t1.r * ej
      ej_s1 == t1.s * ej
      k1    == t1.k
      ej_r2 == t2.r * ej
      ej_s2 == t2.s * ej
      k2    == t2.k
  IN  RSum([q \in 1..Len(s0.blocks[j]) |->
        LET b == s0.blocks[j][q] + 1
        IN  RAdd(RAdd(RAdd(
              RMul(get(TX.blocks[b], ej_s1 + k1, ej_r2 + k2), get(TY.blocks[b], ej_s2 + k2, ej_r1 + k1)),
              RMul(get(TX.blocks[b], ej_r1 + k1, ej_r2 + k2), get(TY.blocks[b], ej_s2 + k2, ej_s1 + k1))),
              RMul(get(TX.blocks[b], ej_s1 + k1, ej_s2 + k2), get(TY.blocks[b], ej_r2 + k2, ej_r1 + k1))),
              RMul(get(TX.blocks[b], ej_r1 + k1, ej_s2 + k2), get(TY.blocks[b], ej_r2 + k2, ej_s1 + k1)))])

\* tmp of one pair of tuples t1, t2 of group j: the sum over b in blocks[j].
addSchurBlocks_tmp(s0, TX, TY, j, t1, t2) ==
  LET ej    == s0.degrees[j] + 1
      ej_r1 == t1.r * ej
      ej_s1 == t1.s * ej
      k1    == t1.k
      ej_r2 == t2.r * ej
      ej_s2 == t2.s * ej
      k2    == t2.k
  IN  RSum([q \in 1..Len(s0.blocks[j]) |->
        LET b == s0.blocks[j][q] + 1
        IN  RDiv(RAdd(RAdd(RAdd(
              RMul(get(TX.blocks[b], ej_s1 + k1, ej_r2 + k2), get(TY.blocks[b], ej_s2 + k2, ej_r1 + k1)),
              RMul(get(TX.blocks[b], ej_r1 + k1, ej_r2 + k2), get(TY.blocks[b], ej_s2 + k2, ej_s1 + k1))),
              RMul(get(TX.blocks[b], ej_s1 + k1, ej_s2 + k2), get(TY.blocks[b], ej_r2 + k2, ej_r1 + k1))),
              RMul(get(TX.blocks[b], ej_r1 + k1, ej_s2 + k2), get(TY.blocks[b], ej_r2 + k2, ej_s1 + k1))),
              RInt(4))])

\* The mirror write left out.
addSchurBlocks_mirror_dropped(S, p1, p2, tmp) == S

\* if (p2 != p1) schurComplement.addElt(p2, p1, tmp)
addSchurBlocks_mirror(S, p1, p2, tmp) ==
  IF p2 # p1 THEN addElt(S, p2, p1, tmp) ELSE S

\* The t2 loop: from the first tuple of the group while t2->p <= t1->p.
RECURSIVE addSchurBlocks_t2(_, _, _, _, _, _, _, _)
addSchurBlocks_t2(s0, TX, TY, tuples, j, i1, i2, S) ==
  IF i2 > Len(tuples[j]) THEN S
  ELSE IF ~(tuples[j][i2].p <= tuples[j][i1].p) THEN S
  ELSE LET t1 == tuples[j][i1]
           t2 == tuples[j][i2]
       IN  addSchurBlocks_t2(s0, TX, TY, tuples, j, i1, i2 + 1,
             CHOOSE S1 \in {addSchurBlocks_mirror(addElt(S, t1.p, t2.p, tmp),
                                                  t1.p, t2.p, tmp) :
                             tmp \in {addSchurBlocks_tmp(s0, TX, TY, j, t1, t2)}} : TRUE)

RECURSIVE addSchurBlocks_t1(_, _, _, _, _, _, _)
addSchurBlocks_t1(s0, TX, TY, tuples, j, i1, S) ==
  IF i1 > Len(tuples[j]) THEN S
  ELSE addSchurBlocks_t1(s0, TX, TY, tuples, j, i1 + 1,
         addSchurBlocks_t2(s0, TX, TY, tuples, j, i1, 1, S))

RECURSIVE addSchurBlocks_j(_, _, _, _, _, _)
addSchurBlocks_j(s0, TX, TY, tuples, j, S) ==
  IF j > Len(s0.dimensions) THEN S
  ELSE addSchurBlocks_j(s0, TX, TY, tuples, j + 1,
         addSchurBlocks_t1(s0, TX, TY, tuples, j, 1, S))

addSchurBlocks(s0, TX, TY, tuples, S) == addSchurBlocks_j(s0, TX, TY, tuples, 1, S)

(***************************************************************************)
(* SDPSolver: constructor, initialize, computeSchurComplementCholesky      *)
(***************************************************************************)
\* SDPSolver::SDPSolver(sdp, parameters).
SDPSolver(sdp0) ==
  /\ pc = "constructed"
  /\ args = <<>>
  /\ ret = <<>>
  /\ sdp = sdp0
  /\ x = Vector(sdp.numConstraints, Zero)
  /\ dx = x
  /\ dualResidues = x
  /\ XInvYDiag = Vector(sdp.objDimension, Zero)
  /\ X = BlockDiagonalMatrix(sdp.objDimension, psdMatrixBlockDims(sdp))
  /\ XInv = X
  /\ XInvCholesky = X
  /\ Y = X
  /\ Z = X
  /\ dX = X
  /\ dY = X
  /\ Rc = X
  /\ primalResidues = X
  /\ bilinearPairingsXInv = BlockDiagonalMatrix(0, bilinearPairingBlockDims(sdp))
  /\ bilinearPairingsY = bilinearPairingsXInv
  /\ schurComplement = Matrix(sdp.numConstraints, sdp.numConstraints)
  /\ schurComplementCholesky = schurComplement
  /\ XInvWorkspace = X
  /\ constraintIndexTuples = initializeConstraintIndices(sdp.dimensions, sdp.degrees)
  /\ bilinearPairingsWorkspace =
       [b \in 1..Len(sdp.bilinearBases) |->
          Matrix(X.blocks[b].rows, bilinearPairingsXInv.blocks[b].cols)]

\* testSDPSolver: the solver of an SDP that parseBootstrapSDP read.
SolverInit == \E in \in SDPInputs : SDPSolver(parseBootstrapSDP(in))

\* An element formula with the index base off by one.
initialize_elt_shifted(r, c) == RDiv(One, RAdd(RAdd(RInt(2), RInt(r)), RInt(c)))

\* Real elt = Real(1)/(Real(1)+Real(r) + Real(c))
initialize_elt(r, c) == RDiv(One, RAdd(RAdd(One, RInt(r)), RInt(c)))

\* The X left by initialize(): every block entry set, then addDiagonal(2).
initialize_X(A) ==
  BlockDiagonalMatrix_addDiagonal(
    [A EXCEPT !.blocks =
       [b \in 1..Len(A.blocks) |->
          [A.blocks[b] EXCEPT !.elements =
             [e \in 1..(A.blocks[b].rows * A.blocks[b].cols) |->
                LET r0 == (e - 1) % A.blocks[b].rows
                    c0 == (e - 1) \div A.blocks[b].rows
                IN  IF r0 <= c0 THEN initialize_elt(r0, c0)
                    ELSE initialize_elt(c0, r0)]]]],
    RInt(2))

\* SDPSolver::initialize(), called as testSDPSolver calls it: right after
\* the constructor.
initialize ==
  /\ pc = "constructed"
  /\ x' = [p \in 1..Len(x) |-> One]
  /\ X' = initialize_X(X)
  /\ Y' = BlockDiagonalMatrix_setIdentity(Y)
  /\ pc' = "initialized"
  /\ UNCHANGED <<args, ret, sdp, constraintIndexTuples, dx, dualResidues,
                 XInvYDiag, XInv, XInvCholesky, Z, dX, dY, Rc, primalResidues,
                 bilinearPairingsXInv, bilinearPairingsY, schurComplement,
                 schurComplementCholesky, XInvWorkspace,
                 bilinearPairingsWorkspace>>

\* Iterates with parameters 1..IterateRange.
IterateRange == 2

\* A symmetric positive-definite matrix shaped like A: diagonal prefix d,
\* blocks with d + 1 on the diagonal and o off it.
Iterate(A, d, o) ==
  [A EXCEPT
     !.diagonalPart = [i \in 1..Len(A.diagonalPart) |-> RInt(d)],
     !.blocks =
       [b \in 1..Len(A.blocks) |->
          [A.blocks[b] EXCEPT !.elements =
             [e \in 1..(A.blocks[b].rows * A.blocks[b].cols) |->
                IF (e - 1) % A.blocks[b].rows = (e - 1) \div A.blocks[b].rows
                THEN RInt(d + 1) ELSE RInt(o)]]]]

\* The caller moves the iterate: X and Y are public members and the step
\* that updates them is left to the user of the class.
setIterate ==
  /\ pc \in {"initialized", "iterate", "assembled", "direction"}
  /\ \E a \in 1..IterateRange, c \in 1..IterateRange :
       /\ X' = Iterate(X, a, 1)
       /\ Y' = Iterate(Y, c, -1)
  /\ pc' = "iterate"
  /\ UNCHANGED <<args, ret, sdp, constraintIndexTuples, x, dx, dualResidues,
                 XInvYDiag, XInv, XInvCholesky, Z, dX, dY, Rc, primalResidues,
                 bilinearPairingsXInv, bilinearPairingsY, schurComplement,
                 schurComplementCholesky, XInvWorkspace,
                 bilinearPairingsWorkspace>>

\* SDPSolver::computeSchurComplementCholesky(): the statements in order,
\* each reading what the ones before it wrote.
computeSchurComplementCholesky ==
  /\ pc \in {"initialized", "iterate"}
  /\ \E inv \in {inverseCholeskyAndInverse(X, XInvWorkspace, XInvCholesky, XInv)} :
     \E pX \in {computeBilinearPairings(inv[3], sdp.bilinearBases,
                                        bilinearPairingsWorkspace, bilinearPairingsXInv)} :
     \E pY \in {computeBilinearPairings(Y, sdp.bilinearBases, pX[1], bilinearPairingsY)} :
     \E diag \in {componentProduct(inv[3].diagonalPart, Y.diagonalPart, XInvYDiag)} :
     \E S0 \in {diagonalCongruenceTranspose(Pointer(diag, 0), sdp.polMatrixValues,
                                            0, 0, schurComplement)} :
     \E S \in {addSchurBlocks(sdp, pX[2], pY[2], constraintIndexTuples, S0)} :
       /\ XInvWorkspace' = inv[1]
       /\ XInvCholesky' = inv[2]
       /\ XInv' = inv[3]
       /\ bilinearPairingsXInv' = pX[2]
       /\ bilinearPairingsY' = pY[2]
       /\ bilinearPairingsWorkspace' = pY[1]
       /\ XInvYDiag' = diag
       /\ schurComplement' = S
       /\ schurComplementCholesky' = choleskyDecomposition(S, schurComplementCholesky)
  /\ pc' = "assembled"
  /\ UNCHANGED <<args, ret, sdp, constraintIndexTuples, x, dx, dualResidues,
                 X, Y, Z, dX, dY, Rc, primalResidues>>

SolverNext == initialize \/ setIterate \/ computeSchurComplementCholesky

SpecSolver == SolverInit /\ [][SolverNext]_vars


(***************************************************************************)
(* Properties of initialize and of the Schur complement assembly           *)
(***************************************************************************)
ConstraintIndices == 0..(sdp.numConstraints - 1)

\* C9: after initialize() on a freshly constructed solver every entry of x
\* is 1, every X block has 1/(1+r+c) off the diagonal and 1/(1+2r) + 2 on
\* it, and Y is the identity on its diagonal prefix and on every block.
C9_Initialize ==
  pc = "initialized" =>
    /\ \A p \in 1..Len(x) : x[p] = Q(1, 1)
    /\ \A b \in 1..Len(X.blocks) :
         \A r \in 0..(X.blocks[b].rows - 1), c \in 0..(X.blocks[b].cols - 1) :
           /\ get(X.blocks[b], r, c) =
                IF r = c THEN RAdd(Q(1, 1 + 2 * r), Q(2, 1)) ELSE Q(1, 1 + r + c)
           /\ get(X.blocks[b], r, c) = get(X.blocks[b], c, r)
    /\ \A i \in 1..Len(Y.diagonalPart) : Y.diagonalPart[i] = Q(1, 1)
    /\ \A b \in 1..Len(Y.blocks) :
         \A r \in 0..(Y.blocks[b].rows - 1), c \in 0..(Y.blocks[b].cols - 1) :
           get(Y.blocks[b], r, c) = IF r = c THEN Q(1, 1) ELSE Q(0, 1)

\* initialize() has run on a solver with a block of more than one row and
\* with more than one constraint.
C9_Witness ==
  /\ pc = "initialized"
  /\ Len(x) > 1
  /\ \E b \in 1..Len(X.blocks) : X.blocks[b].rows > 1
  /\ Len(Y.diagonalPart) > 0

\* C2: once computeSchurComplementCholesky has assembled schurComplement,
\* schurComplement[p][q] equals schurComplement[q][p] for every pair of
\* constraint indices.
C2_SchurSymmetric ==
  pc = "assembled" =>
    \A p \in ConstraintIndices, q \in ConstraintIndices :
      get(schurComplement, p, q) = get(schurComplement, q, p)

\* The group and the tuple of constraint index p.
GroupOf(p) ==
  CHOOSE j \in 1..Len(constraintIndexTuples) :
    \E i \in 1..Len(constraintIndexTuples[j]) : constraintIndexTuples[j][i].p = p

TupleOf(p) ==
  LET j == GroupOf(p)
  IN  constraintIndexTuples[j][CHOOSE i \in 1..Len(constraintIndexTuples[j]) :
                                 constraintIndexTuples[j][i].p = p]

\* The free-variable term B^T diag(XInvYDiag) B at (p1, p2).
FreeVariableTerm(p1, p2) ==
  RSum([n \in 1..sdp.objDimension |->
          RMul(XInvYDiag[n], RMul(get(sdp.polMatrixValues, p1, n - 1),
                                  get(sdp.polMatrixValues, p2, n - 1)))])

\* 1/4 of the sum over b in blocks[j] of the four T_X T_Y products.
PairingTerm(j, t1, t2) ==
  LET e      == sdp.degrees[j] + 1
      TX(b)  == bilinearPairingsXInv.blocks[b + 1]
      TY(b)  == bilinearPairingsY.blocks[b + 1]
      bs     == sdp.blocks[j]
  IN  RMul(Q(1, 4),
        RSum([q \in 1..Len(bs) |->
          RAdd(RAdd(
            RMul(get(TX(bs[q]), e * t1.s + t1.k, e * t2.r + t2.k),
                 get(TY(bs[q]), e * t2.s + t2.k, e * t1.r + t1.k)),
            RMul(get(TX(bs[q]), e * t1.r + t1.k, e * t2.r + t2.k),
                 get(TY(bs[q]), e * t2.s + t2.k, e * t1.s + t1.k))),
          RAdd(
            RMul(get(TX(bs[q]), e * t1.s + t1.k, e * t2.s + t2.k),
                 get(TY(bs[q]), e * t2.r + t2.k, e * t1.r + t1.k)),
            RMul(get(TX(bs[q]), e * t1.r + t1.k, e * t2.s + t2.k),
                 get(TY(bs[q]), e * t2.r + t2.k, e * t1.s + t1.k))))]))

\* C5: addSchurBlocks adds to schurComplement[p1][p2] only when p1 and p2
\* belong to the same group, and then adds the pairing term exactly once:
\* the assembled entry is the free-variable term plus that term within a
\* group, and the free-variable term alone across groups.
C5_SchurBlocks ==
  pc = "assembled" =>
    \A p1 \in ConstraintIndices, p2 \in ConstraintIndices :
      p2 <= p1 =>
        get(schurComplement, p1, p2) =
          IF GroupOf(p1) = GroupOf(p2)
          THEN RAdd(FreeVariableTerm(p1, p2),
                    PairingTerm(GroupOf(p1), TupleOf(p1), TupleOf(p2)))
          ELSE FreeVariableTerm(p1, p2)

\* An assembled Schur complement with a nonzero entry off the diagonal.
C2_Witness ==
  /\ pc = "assembled"
  /\ \E p \in ConstraintIndices, q \in ConstraintIndices :
       /\ q < p
       /\ GroupOf(p) = GroupOf(q)
       /\ ~IsZero(PairingTerm(GroupOf(p), TupleOf(p), TupleOf(q)))
       /\ ~IsZero(get(schurComplement, p, q))

\* An assembled Schur complement of an SDP with two groups, one of them
\* with two constraints whose pairing term is not zero.
C5_Witness ==
  /\ pc = "assembled"
  /\ \E p \in ConstraintIndices, q \in ConstraintIndices : GroupOf(p) # GroupOf(q)
  /\ \E p \in ConstraintIndices, q \in ConstraintIndices :
       /\ q < p
       /\ GroupOf(p) = GroupOf(q)
       /\ ~IsZero(PairingTerm(GroupOf(p), TupleOf(p), TupleOf(q)))
  /\ \E p \in ConstraintIndices : ~IsZero(PairingTerm(GroupOf(p), TupleOf(p), TupleOf(p)))

(***************************************************************************)
(* computeSearchDirection, statement by statement                          *)
(***************************************************************************)
\* A matrix shaped like A that is not positive definite: diagonal prefix 1,
\* blocks -I.
IndefiniteIterate(A) ==
  [A EXCEPT
     !.diagonalPart = [i \in 1..Len(A.diagonalPart) |-> One],
     !.blocks =
       [b \in 1..Len(A.blocks) |->
          [A.blocks[b] EXCEPT !.elements =
             [e \in 1..(A.blocks[b].rows * A.blocks[b].cols) |->
                IF (e - 1) % A.blocks[b].rows = (e - 1) \div A.blocks[b].rows
                THEN RInt(-1) ELSE Zero]]]]

\* The caller hands the solver an X or a Y that is not positive definite
\* (X and Y are public members).
setIndefiniteIterate ==
  /\ pc \in {"initialized", "iterate", "assembled"}
  /\ \/ X' = IndefiniteIterate(X) /\ Y' = Y
     \/ X' = X /\ Y' = IndefiniteIterate(Y)
  /\ pc' = "iterate"
  /\ UNCHANGED <<args, ret, sdp, constraintIndexTuples, x, dx, dualResidues,
                 XInvYDiag, XInv, XInvCholesky, Z, dX, dY, Rc, primalResidues,
                 bilinearPairingsXInv, bilinearPairingsY, schurComplement,
                 schurComplementCholesky, XInvWorkspace,
                 bilinearPairingsWorkspace>>

\* Rgemm("N", "N", ...): C := alpha*A*B + beta*C.
matrixScaleMultiplyAdd(alpha, A, B, beta, C) ==
  [C EXCEPT !.elements =
     [e \in 1..(C.rows * C.cols) |->
        LET i == (e - 1) % C.rows
            j == (e - 1) \div C.rows
        IN  RAdd(RMul(alpha, RSum([k \in 1..A.cols |->
                                     RMul(get(A, i, k - 1), get(B, k - 1, j))])),
                 RMul(beta, C.elements[e]))]]

blockDiagonalMatrixScaleMultiplyAdd(alpha, A, B, beta, C) ==
  [C EXCEPT
     !.diagonalPart =
        [i \in 1..Len(C.diagonalPart) |->
           IF i <= Len(A.diagonalPart)
           THEN RAdd(RMul(RMul(alpha, A.diagonalPart[i]), B.diagonalPart[i]),
                     RMul(beta, C.diagonalPart[i]))
           ELSE C.diagonalPart[i]],
     !.blocks =
        [b \in 1..Len(C.blocks) |->
           IF b <= Len(A.blocks)
           THEN matrixScaleMultiplyAdd(alpha, A.blocks[b], B.blocks[b], beta, C.blocks[b])
           ELSE C.blocks[b]]]

\* operator+= (alpha = 1) and operator-= (alpha = -1): addDiagonalPart and
\* the element loops of the blocks.
BlockDiagonalMatrix_addAssign(A, alpha, B) ==
  [A EXCEPT
     !.diagonalPart = [i \in 1..Len(A.diagonalPart) |->
                         RAdd(A.diagonalPart[i], RMul(alpha, B.diagonalPart[i]))],
     !.blocks =
        [b \in 1..Len(A.blocks) |->
           [A.blocks[b] EXCEPT !.elements =
              [e \in 1..Len(A.blocks[b].elements) |->
                 RAdd(A.blocks[b].elements[e], RMul(alpha, B.blocks[b].elements[e]))]]]]

\* operator*=
BlockDiagonalMatrix_scale(A, c) ==
  [A EXCEPT
     !.diagonalPart = [i \in 1..Len(A.diagonalPart) |-> RMul(A.diagonalPart[i], c)],
     !.blocks =
        [b \in 1..Len(A.blocks) |->
           [A.blocks[b] EXCEPT !.elements =
              [e \in 1..Len(A.blocks[b].elements) |-> RMul(A.blocks[b].elements[e], c)]]]]

\* Rtrmm("Left", "Lower", "NoTranspose", "NonUnitDiag", ..., alpha = 1):
\* B := A B for lower-triangular A.
Rtrmm_NoTranspose(A, B) ==
  [B EXCEPT !.elements =
     [e \in 1..(B.rows * B.cols) |->
        LET i == (e - 1) % B.rows
            j == (e - 1) \div B.rows
        IN  RSum([k \in 1..(i + 1) |-> RMul(get(A, i, k - 1), get(B, k - 1, j))])]]

\* X := AInvCholesky^T AInvCholesky X
matrixSolveWithInverseCholesky(AInvCholesky, M) ==
  CHOOSE R \in {Rtrmm_Transpose(AInvCholesky, T) :
                  T \in {Rtrmm_NoTranspose(AInvCholesky, M)}} : TRUE

blockMatrixSolveWithInverseCholesky(AInvCholesky, M) ==
  [M EXCEPT
     !.diagonalPart =
        [i \in 1..Len(M.diagonalPart) |->
           RMul(M.diagonalPart[i],
                RMul(AInvCholesky.diagonalPart[i], AInvCholesky.diagonalPart[i]))],
     !.blocks =
        [b \in 1..Len(M.blocks) |->
           matrixSolveWithInverseCholesky(AInvCholesky.blocks[b], M.blocks[b])]]

\* dotProduct of the diagonal prefixes plus, for every block, twice the
\* strict upper triangle and once the diagonal.
frobeniusProductSymmetric(A, B) ==
  LET block(a, b) ==
        RAdd(RMul(RInt(2),
                  RSum([e \in 1..(a.rows * a.cols) |->
                          IF (e - 1) % a.rows < (e - 1) \div a.rows
                          THEN RMul(a.elements[e], b.elements[e]) ELSE Zero])),
             RSum([r \in 1..a.rows |-> RMul(get(a, r - 1, r - 1), get(b, r - 1, r - 1))]))
  IN  RAdd(RSum([i \in 1..Len(A.diagonalPart) |->
                   RMul(A.diagonalPart[i], B.diagonalPart[i])]),
           RSum([b \in 1..Len(A.blocks) |-> block(A.blocks[b], B.blocks[b])]))

\* dualResidues[p] for every tuple of every group; tuplesOf is
\* constraintIndexTuples.
computeDualResidues(s0, A, pairingsY, tuplesOf, residues) ==
  [q \in 1..Len(residues) |->
     IF \E j \in 1..Len(s0.dimensions) :
          \E i \in 1..Len(tuplesOf[j]) : tuplesOf[j][i].p = q - 1
     THEN LET j  == CHOOSE g \in 1..Len(s0.dimensions) :
                      \E i \in 1..Len(tuplesOf[g]) : tuplesOf[g][i].p = q - 1
              t  == tuplesOf[j][CHOOSE i \in 1..Len(tuplesOf[j]) :
                                  tuplesOf[j][i].p = q - 1]
              ej == s0.degrees[j] + 1
              halved ==
                RDiv(RSum([n \in 1..Len(s0.blocks[j]) |->
                        RNeg(RAdd(get(pairingsY.blocks[s0.blocks[j][n] + 1],
                                      t.r * ej + t.k, t.s * ej + t.k),
                                  get(pairingsY.blocks[s0.blocks[j][n] + 1],
                                      t.s * ej + t.k, t.r * ej + t.k)))]),
                     RInt(2))
          IN  RAdd(RSub(halved,
                        RSum([n \in 1..s0.polMatrixValues.cols |->
                                RMul(A.diagonalPart[n],
                                     get(s0.polMatrixValues, t.p, n - 1))])),
                   s0.affineConstants[t.p + 1])
     ELSE residues[q]]

\* primalResidues = sum_p F_p x_p - X - F_0
computePrimalResidues(s0, xv, A, residues) ==
  LET sum  == constraintMatrixWeightedSum(s0, xv, residues)
      diff == BlockDiagonalMatrix_addAssign(sum, RInt(-1), A)
  IN  [diff EXCEPT !.diagonalPart =
         [i \in 1..Len(diff.diagonalPart) |->
            RAdd(diff.diagonalPart[i], RMul(RInt(-1), s0.objective[i]))]]

\* v^T A' v for the (blockRow, blockCol) dim x dim block A' of A; v is a
\* function on 0..dim-1.
bilinearBlockPairing(v, dim, A, blockRow, blockCol) ==
  RSum([r \in 1..dim |->
          RMul(v[r - 1],
               RSum([c \in 1..dim |->
                       RMul(v[c - 1], get(A, blockRow * dim + r - 1,
                                             blockCol * dim + c - 1))]))])

computeSchurRHS(s0, tuplesOf, residues, W, r) ==
  [q \in 1..Len(r) |->
     LET first == RSub(RNeg(residues[q]),
                       RSum([n \in 1..Len(W.diagonalPart) |->
                               RMul(get(s0.polMatrixValues, q - 1, n - 1),
                                    W.diagonalPart[n])]))
     IN  IF \E j \in 1..Len(s0.dimensions) :
              \E i \in 1..Len(tuplesOf[j]) : tuplesOf[j][i].p = q - 1
         THEN LET j == CHOOSE g \in 1..Len(s0.dimensions) :
                         \E i \in 1..Len(tuplesOf[g]) : tuplesOf[g][i].p = q - 1
                  t == tuplesOf[j][CHOOSE i \in 1..Len(tuplesOf[j]) :
                                     tuplesOf[j][i].p = q - 1]
              IN  RSub(first,
                    RSum([n \in 1..Len(s0.blocks[j]) |->
                      LET b     == s0.blocks[j][n] + 1
                          delta == s0.bilinearBases[b].rows
                      IN  bilinearBlockPairing(
                            Pointer(s0.bilinearBases[b].elements, t.k * delta),
                            delta, W.blocks[b], t.r, t.s)]))
         ELSE first]

\* Rtrsm("Left", "Lower", "Transpose", "NonUnitDiagonal", dim, 1, ...):
\* back substitution with A^T on the vector col (a function on 0..dim-1).
RECURSIVE Rtrsm_Transpose(_, _, _)
Rtrsm_Transpose(A, col, i) ==
  IF i < 0 THEN col
  ELSE Rtrsm_Transpose(A,
         [col EXCEPT ![i] =
            RDiv(RSub(col[i],
                      RSum([k \in 1..(A.rows - 1 - i) |->
                              RMul(get(A, i + k, i), col[i + k])])),
                 get(A, i, i))],
         i - 1)

\* b := ACholesky^{-1 T} ACholesky^{-1} b
solveInplaceWithCholesky(ACholesky, b) ==
  LET y == Rtrsm_column(ACholesky, [i \in 0..(Len(b) - 1) |-> b[i + 1]], 0)
      z == Rtrsm_Transpose(ACholesky, y, ACholesky.rows - 1)
  IN  [i \in 1..Len(b) |-> z[i - 1]]

betaAuxiliary(A, dA, B, dB) ==
  LET r == RDiv(frobeniusProductOfSums(A, dA, B, dB), frobeniusProductSymmetric(A, B))
  IN  RMul(r, r)

correctorCenteringParameter(params, feasErr, betaAux) ==
  IF RGt(betaAux, One) THEN One
  ELSE IF RLt(feasErr, params.epsilonBar) THEN maxReal(params.betaStar, betaAux)
  ELSE maxReal(params.betaBar, betaAux)

\* R = beta mu I - Y X: the factors of the product exchanged.
computePredictorRMatrix_exchanged(beta, mu, A, B, R) ==
  BlockDiagonalMatrix_addDiagonal(
    BlockDiagonalMatrix_scale(
      blockDiagonalMatrixScaleMultiplyAdd(One, B, A, Zero, R), RInt(-1)),
    RMul(beta, mu))

\* R = beta mu I - X Y
computePredictorRMatrix(beta, mu, A, B, R) ==
  BlockDiagonalMatrix_addDiagonal(
    BlockDiagonalMatrix_scale(
      blockDiagonalMatrixScaleMultiplyAdd(One, A, B, Zero, R), RInt(-1)),
    RMul(beta, mu))

\* R = beta mu I - X Y - dX dY
computeCorrectorRMatrix(beta, mu, A, dA, B, dB, R) ==
  BlockDiagonalMatrix_addDiagonal(
    blockDiagonalMatrixScaleMultiplyAdd(RInt(-1), dA, dB, One,
      blockDiagonalMatrixScaleMultiplyAdd(RInt(-1), A, B, Zero, R)),
    RMul(beta, mu))

\* computeSearchDirectionWithRMatrix(R) without dY.symmetrize().
computeSearchDirectionWithRMatrix_unsymmetrized(R) ==
  \E Z1 \in {BlockDiagonalMatrix_symmetrize(
               blockMatrixSolveWithInverseCholesky(XInvCholesky,
                 BlockDiagonalMatrix_addAssign(
                   blockDiagonalMatrixScaleMultiplyAdd(One, primalResidues, Y, Zero, Z),
                   RInt(-1), R)))} :
  \E dx1 \in {solveInplaceWithCholesky(schurComplementCholesky,
                computeSchurRHS(sdp, constraintIndexTuples, dualResidues, Z1, dx))} :
  \E dX1 \in {BlockDiagonalMatrix_addAssign(
                constraintMatrixWeightedSum(sdp, dx1, dX), One, primalResidues)} :
    /\ Z' = Z1
    /\ dx' = dx1
    /\ dX' = dX1
    /\ dY' = BlockDiagonalMatrix_scale(
               blockMatrixSolveWithInverseCholesky(XInvCholesky,
                 BlockDiagonalMatrix_addAssign(
                   blockDiagonalMatrixScaleMultiplyAdd(One, dX1, Y, Zero, dY),
                   RInt(-1), R)),
               RInt(-1))

\* SDPSolver::computeSearchDirectionWithRMatrix(R): writes Z, dx, dX, dY.
computeSearchDirectionWithRMatrix(R) ==
  \E Z1 \in {BlockDiagonalMatrix_symmetrize(
               blockMatrixSolveWithInverseCholesky(XInvCholesky,
                 BlockDiagonalMatrix_addAssign(
                   blockDiagonalMatrixScaleMultiplyAdd(One, primalResidues, Y, Zero, Z),
                   RInt(-1), R)))} :
  \E dx1 \in {solveInplaceWithCholesky(schurComplementCholesky,
                computeSchurRHS(sdp, constraintIndexTuples, dualResidues, Z1, dx))} :
  \E dX1 \in {BlockDiagonalMatrix_addAssign(
                constraintMatrixWeightedSum(sdp, dx1, dX), One, primalResidues)} :
    /\ Z' = Z1
    /\ dx' = dx1
    /\ dX' = dX1
    /\ dY' = BlockDiagonalMatrix_scale(
               BlockDiagonalMatrix_symmetrize(
                 blockMatrixSolveWithInverseCholesky(XInvCholesky,
                   BlockDiagonalMatrix_addAssign(
                     blockDiagonalMatrixScaleMultiplyAdd(One, dX1, Y, Zero, dY),
                     RInt(-1), R))),
               RInt(-1))

\* The dual residues computed ahead of computeSchurComplementCholesky().
stepDualResidues_beforeSchur ==
  /\ pc \in {"initialized", "iterate"}
  /\ dualResidues' = computeDualResidues(sdp, Y, bilinearPairingsY,
                                         constraintIndexTuples, dualResidues)
  /\ pc' = "dualResidues"
  /\ UNCHANGED <<args, ret, sdp, constraintIndexTuples, x, dx, XInvYDiag, X, XInv,
                 XInvCholesky, Y, Z, dX, dY, Rc, primalResidues,
                 bilinearPairingsXInv, bilinearPairingsY, schurComplement,
                 schurComplementCholesky, XInvWorkspace,
                 bilinearPairingsWorkspace>>

\* computeSearchDirection(), second statement.
stepDualResidues ==
  /\ pc = "assembled"
  /\ dualResidues' = computeDualResidues(sdp, Y, bilinearPairingsY,
                                         constraintIndexTuples, dualResidues)
  /\ pc' = "dualResidues"
  /\ UNCHANGED <<args, ret, sdp, constraintIndexTuples, x, dx, XInvYDiag, X, XInv,
                 XInvCholesky, Y, Z, dX, dY, Rc, primalResidues,
                 bilinearPairingsXInv, bilinearPairingsY, schurComplement,
                 schurComplementCholesky, XInvWorkspace,
                 bilinearPairingsWorkspace>>

\* computePrimalResidues writing its result over X.
stepPrimalResidues_intoX ==
  /\ pc = "dualResidues"
  /\ X' = computePrimalResidues(sdp, x, X, primalResidues)
  /\ pc' = "primalResidues"
  /\ UNCHANGED <<args, ret, sdp, constraintIndexTuples, x, dx, dualResidues,
                 XInvYDiag, primalResidues, XInv, XInvCholesky, Y, Z, dX, dY, Rc,
                 bilinearPairingsXInv, bilinearPairingsY, schurComplement,
                 schurComplementCholesky, XInvWorkspace,
                 bilinearPairingsWorkspace>>

\* computeSearchDirection(), third statement.
stepPrimalResidues ==
  /\ pc = "dualResidues"
  /\ primalResidues' = computePrimalResidues(sdp, x, X, primalResidues)
  /\ pc' = "primalResidues"
  /\ UNCHANGED <<args, ret, sdp, constraintIndexTuples, x, dx, dualResidues,
                 XInvYDiag, X, XInv, XInvCholesky, Y, Z, dX, dY, Rc,
                 bilinearPairingsXInv, bilinearPairingsY, schurComplement,
                 schurComplementCholesky, XInvWorkspace,
                 bilinearPairingsWorkspace>>

\* mu, feasErr, betaPredictor, computePredictorRMatrix and the predictor
\* solve; the locals mu and feasErr are kept in args for the corrector.
stepPredictor ==
  /\ pc = "primalResidues"
  /\ \E mu \in {RDiv(frobeniusProductSymmetric(X, Y), RInt(X.dim))} :
     \E stray \in StrayValues :
     \E feasErr \in {feasibilityError(dualResidues, primalResidues, stray)} :
     \E R \in {computePredictorRMatrix(
                 predictorCenteringParameter(SolverParameters, feasErr),
                 mu, X, Y, Rc)} :
       /\ args' = [mu |-> mu, feasErr |-> feasErr]
       /\ Rc' = R
       /\ computeSearchDirectionWithRMatrix(R)
  /\ pc' = "predictor"
  /\ UNCHANGED <<ret, sdp, constraintIndexTuples, x, dualResidues, XInvYDiag, X,
                 XInv, XInvCholesky, Y, primalResidues, bilinearPairingsXInv,
                 bilinearPairingsY, schurComplement, schurComplementCholesky,
                 XInvWorkspace, bilinearPairingsWorkspace>>

\* The corrector built as a second predictor: R and the centering
\* parameter computed as if the predictor had left dX = dY = 0.
stepCorrector_fromZeroDirection ==
  /\ pc = "predictor"
  /\ \E R \in {computeCorrectorRMatrix(
                 correctorCenteringParameter(SolverParameters, args.feasErr,
                   betaAuxiliary(X, BlockDiagonalMatrix_setZero(dX),
                                 Y, BlockDiagonalMatrix_setZero(dY))),
                 args.mu, X, BlockDiagonalMatrix_setZero(dX),
                 Y, BlockDiagonalMatrix_setZero(dY), Rc)} :
       /\ Rc' = R
       /\ computeSearchDirectionWithRMatrix(R)
  /\ pc' = "direction"
  /\ UNCHANGED <<args, ret, sdp, constraintIndexTuples, x, dualResidues, XInvYDiag,
                 X, XInv, XInvCholesky, Y, primalResidues, bilinearPairingsXInv,
                 bilinearPairingsY, schurComplement, schurComplementCholesky,
                 XInvWorkspace, bilinearPairingsWorkspace>>

\* betaCorrector, computeCorrectorRMatrix and the corrector solve.
stepCorrector ==
  /\ pc = "predictor"
  /\ \E R \in {computeCorrectorRMatrix(
                 correctorCenteringParameter(SolverParameters, args.feasErr,
                                             betaAuxiliary(X, dX, Y, dY)),
                 args.mu, X, dX, Y, dY, Rc)} :
       /\ Rc' = R
       /\ computeSearchDirectionWithRMatrix(R)
  /\ pc' = "direction"
  /\ UNCHANGED <<args, ret, sdp, constraintIndexTuples, x, dualResidues, XInvYDiag,
                 X, XInv, XInvCholesky, Y, primalResidues, bilinearPairingsXInv,
                 bilinearPairingsY, schurComplement, schurComplementCholesky,
                 XInvWorkspace, bilinearPairingsWorkspace>>

\* The SDPs whose search direction is computed: one 1x1 group of degree 0
\* or 1, with the objectives of SDPInputs and with an objective of length 0.
DirectionInputs ==
  {in \in SDPInputs : in.positiveMatrixPols \in {<<Pol_1x1_deg0>>, <<Pol_1x1_deg1>>}}
  \cup [objective          : {<<>>},
        normalization      : {<<>>},
        positiveMatrixPols : {<<Pol_1x1_deg0>>, <<Pol_1x1_deg1>>}]

DirectionInit == \E in \in DirectionInputs : SDPSolver(parseBootstrapSDP(in))

\* computeSearchDirection(), one statement at a time, on the iterates the
\* caller sets.
DirectionNext ==
  \/ initialize
  \/ setIterate
  \/ computeSchurComplementCholesky
  \/ stepDualResidues
  \/ stepPrimalResidues
  \/ stepPredictor
  \/ stepCorrector

SpecDirection == DirectionInit /\ [][DirectionNext]_vars

\* computeSchurComplementCholesky() on iterates that may fail to be positive
\* definite.
FactorNext == SolverNext \/ setIndefiniteIterate

SpecFactor == SolverInit /\ [][FactorNext]_vars

\* The info that Rpotrf reports for the matrices computeSchurComplementCholesky
\* hands to choleskyDecomposition: 0 when every factorization succeeds.
PotrfFailed ==
  \/ \E b \in 1..Len(X.blocks) : Rpotrf(X.blocks[b]).info # 0
  \/ Rpotrf(schurComplement).info # 0

\* C11: when a matrix handed to the Cholesky factorization is not positive
\* definite, the failure reported by POTRF is signalled and the iteration
\* does not continue: computeSchurComplementCholesky returns normally only
\* when no factorization failed.
C11_PotrfFailureSignalled == pc = "assembled" => ~PotrfFailed

\* C12: when a factorization fails inside one iteration of
\* computeSearchDirection (X or the Schur complement is not positive
\* definite), the iteration leaves XInv, XInvCholesky, the bilinear pairings,
\* schurComplement, the residues, Z, dx, dX, dY and Rc as they were when the
\* iteration started.
C12_FatalErrorLeavesStateUnchanged ==
  [][(pc # "assembled" /\ pc' = "assembled"
        /\ \E A \in {X'}, S \in {schurComplement'} :
             \/ \E b \in 1..Len(A.blocks) : Rpotrf(A.blocks[b]).info # 0
             \/ Rpotrf(S).info # 0)
       => UNCHANGED <<XInv, XInvCholesky, bilinearPairingsXInv, bilinearPairingsY,
                      schurComplement, dualResidues, primalResidues,
                      Z, dx, dX, dY, Rc>>]_vars

\* C13 (as the code runs it): within one iteration the steps run in one
\* fixed sequence.  The Schur complement is assembled and factored first
\* (steps 1, 2 and 5 of the iteration), while the residues still hold what
\* they held before; the dual residues (step 3) are computed next and the
\* primal residues (step 4) after them, both with the factored Schur
\* complement already in place; mu and the predictor solve follow the primal
\* residues and the corrector solve follows the predictor.
C13_FixedSequence ==
  [][/\ pc' = "assembled" /\ pc # "assembled"
          => pc \in {"initialized", "iterate"}
             /\ UNCHANGED <<dualResidues, primalResidues, dx, dX, dY>>
     /\ pc' = "dualResidues"
          => pc = "assembled"
             /\ UNCHANGED <<schurComplement, schurComplementCholesky, primalResidues>>
     /\ pc' = "primalResidues"
          => pc = "dualResidues"
             /\ UNCHANGED <<schurComplement, schurComplementCholesky, dualResidues>>
     /\ pc' = "predictor"
          => pc = "primalResidues"
             /\ UNCHANGED <<schurComplementCholesky, dualResidues, primalResidues>>
     /\ pc' = "direction"
          => pc = "predictor"
             /\ UNCHANGED <<schurComplementCholesky, dualResidues, primalResidues>>]_vars

\* An iteration has run to its end on an iterate the caller set: both
\* residues, the factored Schur complement and a search direction are there.
C13_Witness ==
  /\ pc = "direction"
  /\ X # initialize_X(X)
  /\ schurComplementCholesky # Matrix(sdp.numConstraints, sdp.numConstraints)
  /\ \E p \in 1..Len(dx) : ~IsZero(dx[p])
  /\ \E p \in 1..Len(dualResidues) : ~IsZero(dualResidues[p])

\* C13 (as stated): the dual residues and the primal residues are computed
\* before the Schur complement is assembled and factored, which precedes mu
\* and the predictor and corrector solves.
C13_ResiduesBeforeSchur ==
  [][/\ pc' = "assembled" /\ pc # "assembled" => pc = "primalResidues"
     /\ pc' = "predictor" => pc = "assembled"
     /\ pc' = "direction" => pc = "predictor"]_vars

(***************************************************************************)
(* solve() (solve.cxx), statement by statement                             *)
(***************************************************************************)
\* Precisions are 64, 128, ... , 64*MaxPrecisionWords bits.
MaxPrecisionWords == 3

Precisions == {64 * w : w \in 1..MaxPrecisionWords}

TerminateReasons == {"PrimalDualOptimal", "MaxIterationsExceeded"}

\* The call solve(sdp_files, out_file, checkpoint_file_in,
\* checkpoint_file_out, parameters).  The program state solve() reads and
\* writes is kept in args: the two global precisions and how often each was
\* written; the by-value argument parameters (its precision field, the
\* precision its Real fields carry, no_final_checkpoint); whether
\* checkpoint_file_in exists; the precision in force when the Reals of the
\* SDP_Solver were constructed (0: no solver yet); and what was loaded, run
\* and saved.  The copy of parameters is made by the caller before the first
\* statement of solve(): a copied mpf_class keeps the precision of its source.
SolveInit ==
  /\ pc = "solve"
  /\ args \in [default_prec        : Precisions,
               el_prec             : Precisions,
               default_prec_sets   : {0},
               el_prec_sets        : {0},
               precision           : Precisions,
               real_prec           : Precisions,
               no_final_checkpoint : BOOLEAN,
               exists_in           : BOOLEAN,
               solver_prec         : {0},
               loads               : {0},
               reason              : {""},
               checkpoints         : {0},
               solutions           : {0},
               log                 : {<<>>}]
  /\ ret = <<>>
  /\ NoSolver

\* mpf_set_default_prec(parameters.precision);
solve_mpf_set_default_prec ==
  /\ pc = "solve"
  /\ args' = [args EXCEPT !.default_prec = args.precision,
                          !.default_prec_sets = @ + 1]
  /\ pc' = "solve_gmp"
  /\ UNCHANGED <<ret, solverVars>>

\* El::mpfr::SetPrecision(parameters.precision);
solve_SetPrecision ==
  /\ pc = "solve_gmp"
  /\ args' = [args EXCEPT !.el_prec = args.precision, !.el_prec_sets = @ + 1]
  /\ pc' = "solve_el"
  /\ UNCHANGED <<ret, solverVars>>

\* A resetPrecision() that leaves the Real fields as they are.
solve_resetPrecision_skipped ==
  /\ pc = "solve_el"
  /\ args' = args
  /\ pc' = "solve_reset"
  /\ UNCHANGED <<ret, solverVars>>

\* parameters.resetPrecision(): every Real field of parameters gets the
\* default precision.
solve_resetPrecision ==
  /\ pc = "solve_el"
  /\ args' = [args EXCEPT !.real_prec = args.default_prec]
  /\ pc' = "solve_reset"
  /\ UNCHANGED <<ret, solverVars>>

\* SDP_Solver solver(sdp_files, parameters): its Reals are constructed with
\* the default precision in force.
solve_SDP_Solver ==
  /\ pc = "solve_reset"
  /\ args' = [args EXCEPT !.solver_prec = args.default_prec]
  /\ pc' = "solve_constructed"
  /\ UNCHANGED <<ret, solverVars>>

\* if(exists(checkpoint_file_in)) solver.load_checkpoint(checkpoint_file_in);
solve_load_checkpoint ==
  /\ pc = "solve_constructed"
  /\ args' = IF args.exists_in
             THEN [args EXCEPT !.loads = @ + 1, !.log = Append(@, "load_checkpoint")]
             ELSE args
  /\ pc' = "solve_loaded"
  /\ UNCHANGED <<ret, solverVars>>

\* reason = solver.run(checkpoint_file_out);
solve_run ==
  /\ pc = "solve_loaded"
  /\ \E reason \in TerminateReasons :
       args' = [args EXCEPT !.reason = reason, !.log = Append(@, "run")]
  /\ pc' = "solve_ran"
  /\ UNCHANGED <<ret, solverVars>>

\* solver.save_checkpoint(checkpoint_file_out) whatever no_final_checkpoint is.
solve_save_checkpoint_always ==
  /\ pc = "solve_ran"
  /\ args' = [args EXCEPT !.checkpoints = @ + 1,
                          !.log = Append(@, "save_checkpoint")]
  /\ pc' = "solve_checkpointed"
  /\ UNCHANGED <<ret, solverVars>>

\* if(!parameters.no_final_checkpoint) solver.save_checkpoint(checkpoint_file_out);
solve_save_checkpoint ==
  /\ pc = "solve_ran"
  /\ args' = IF ~args.no_final_checkpoint
             THEN [args EXCEPT !.checkpoints = @ + 1,
                               !.log = Append(@, "save_checkpoint")]
             ELSE args
  /\ pc' = "solve_checkpointed"
  /\ UNCHANGED <<ret, solverVars>>

\* solver.save_solution(reason, out_file);
solve_save_solution ==
  /\ pc = "solve_checkpointed"
  /\ args' = [args EXCEPT !.solutions = @ + 1, !.log = Append(@, "save_solution")]
  /\ pc' = "solve_saved"
  /\ UNCHANGED <<ret, solverVars>>

\* return 0;
solve_return ==
  /\ pc = "solve_saved"
  /\ ret' = 0
  /\ pc' = "solve_returned"
  /\ UNCHANGED <<args, solverVars>>

SolveNext ==
  \/ solve_mpf_set_default_prec
  \/ solve_SetPrecision
  \/ solve_resetPrecision
  \/ solve_SDP_Solver
  \/ solve_load_checkpoint
  \/ solve_run
  \/ solve_save_checkpoint
  \/ solve_save_solution
  \/ solve_return

SpecSolve == SolveInit /\ [][SolveNext]_vars

\* C14 (as the code runs it): in solve() each global precision is written
\* exactly once, at the top, and not again before solve returns; the
\* SDP_Solver and all its Reals are constructed after that, under the
\* precision of parameters.  The Real fields of the by-value parameters
\* argument are the exception: they exist when solve() is entered, with the
\* precision of the caller's values, and resetPrecision() gives them the
\* precision before the solver is constructed.
C14_PrecisionSetOnce ==
  /\ pc = "solve" => args.default_prec_sets = 0 /\ args.el_prec_sets = 0
  /\ pc \notin {"solve", "solve_gmp"} =>
       /\ args.default_prec_sets = 1 /\ args.el_prec_sets = 1
       /\ args.default_prec = args.precision /\ args.el_prec = args.precision
  /\ pc \notin {"solve", "solve_gmp", "solve_el"} => args.real_prec = args.precision
  /\ args.solver_prec # 0 => args.solver_prec = args.precision
  /\ pc \in {"solve_constructed", "solve_loaded", "solve_ran", "solve_checkpointed",
             "solve_saved", "solve_returned"} => args.solver_prec = args.precision

\* solve() has returned 0 after a solve under 192 bits, each global
\* precision written once.
C14_Witness ==
  /\ pc = "solve_returned"
  /\ ret = 0
  /\ args.solver_prec = 192
  /\ args.real_prec = 192
  /\ args.default_prec_sets = 1
  /\ args.el_prec_sets = 1

\* C14 (as stated): the global precision is set before any Real used by the
\* solve is constructed, the Real fields of the parameters argument
\* included: whenever those fields exist they carry the precision set.
C14_ParametersConstructedAfter ==
  /\ args.default_prec_sets = 1
  /\ args.real_prec = args.precision

(***************************************************************************)
(* fill_from_dual_constraint_groups (fill_from_dual_constraint_groups.cxx) *)
(***************************************************************************)
\* Up to MaxDualObjective dual variables.
MaxDualObjective == 2

\* The j-th Dual_Constraint_Group of a list, of the given dim and degree for
\* a dual objective of the given length: (degree+1)*dim*(dim+1)/2 constraints,
\* the constraint matrix with one column per dual variable, one bilinear
\* basis sampled degree+1 times.  The entries tell the groups, rows and
\* columns apart.
Dual_Constraint_Group(j, dim, degree, cols) ==
  LET rows == ((degree + 1) * dim * (dim + 1)) \div 2
  IN  [dim                 |-> dim,
       degree              |-> degree,
       constraintMatrix    |->
         [rows |-> rows, cols |-> cols,
          elements |-> [e \in 1..(rows * cols) |-> RInt(-(100 * j + e))]],
       constraintConstants |-> [k \in 1..rows |-> RInt(100 * j + k)],
       bilinearBases       |->
         <<[rows |-> 1, cols |-> degree + 1,
            elements |-> [e \in 1..(degree + 1) |-> RInt(j)]]>>]

\* SDP sdp; as default-constructed.
EmptySDP ==
  [dual_objective_b   |-> <<>>,
   objective_const    |-> Zero,
   dimensions         |-> <<>>,
   degrees            |-> <<>>,
   primal_objective_c |-> <<>>,
   free_var_matrix    |-> Matrix(0, 0),
   bilinear_bases     |-> <<>>,
   blocks             |-> <<>>,
   constraint_indices |-> <<>>]

\* The first loop: dimensions, degrees and primal_objective_c grow by one
\* group at a time.
RECURSIVE fill_dimensions(_, _, _)
fill_dimensions(dualConstraintGroups, i, sdp0) ==
  IF i > Len(dualConstraintGroups) THEN sdp0
  ELSE LET g == dualConstraintGroups[i]
       IN  fill_dimensions(dualConstraintGroups, i + 1,
             [sdp0 EXCEPT !.dimensions = Append(@, g.dim),
                          !.degrees = Append(@, g.degree),
                          !.primal_objective_c = @ \o g.constraintConstants])

\* The copy of one group with the rows taken from the bottom of the group.
fill_constraintMatrix_reversed(g, p, B) ==
  [B EXCEPT !.elements =
     [e \in 1..(B.rows * B.cols) |->
        LET row == (e - 1) % B.rows
            n   == (e - 1) \div B.rows
        IN  IF row >= p /\ row < p + g.constraintMatrix.rows
               /\ n < g.constraintMatrix.cols
            THEN get(g.constraintMatrix, g.constraintMatrix.rows - 1 - (row - p), n)
            ELSE B.elements[e]]]

\* for k, p: for n: free_var_matrix.elt(p, n) = g.constraintMatrix.elt(k, n),
\* the rows of g going to rows p, p + 1, ... of B.
fill_constraintMatrix(g, p, B) ==
  [B EXCEPT !.elements =
     [e \in 1..(B.rows * B.cols) |->
        LET row == (e - 1) % B.rows
            n   == (e - 1) \div B.rows
        IN  IF row >= p /\ row < p + g.constraintMatrix.rows
               /\ n < g.constraintMatrix.cols
            THEN get(g.constraintMatrix, row - p, n)
            ELSE B.elements[e]]]

\* The second loop: bases, blocks and the rows of free_var_matrix; p and
\* whether every assert(b.cols == g.degree + 1) held are carried along.
RECURSIVE fill_groups(_, _, _)
fill_groups(dualConstraintGroups, i, acc) ==
  IF i > Len(dualConstraintGroups) THEN acc
  ELSE LET g      == dualConstraintGroups[i]
           first  == Len(acc.sdp.bilinear_bases)
           blocks == [b \in 1..Len(g.bilinearBases) |-> first + b - 1]
       IN  fill_groups(dualConstraintGroups, i + 1,
             [sdp |-> [acc.sdp EXCEPT
                         !.bilinear_bases = @ \o g.bilinearBases,
                         !.blocks = Append(@, blocks),
                         !.free_var_matrix = fill_constraintMatrix(g, acc.p, @)],
              p   |-> acc.p + g.constraintMatrix.rows,
              asserted |-> acc.asserted
                           /\ \A b \in 1..Len(g.bilinearBases) :
                                g.bilinearBases[b].cols = g.degree + 1])

\* The function: the filled SDP and whether all its assertions held, those
\* of initialize_constraint_indices included.
fill_from_dual_constraint_groups(dual_objective_b, objective_const, dualConstraintGroups, sdp0) ==
  LET s1 == fill_dimensions(dualConstraintGroups, 1,
              [sdp0 EXCEPT !.dual_objective_b = dual_objective_b,
                           !.objective_const = objective_const])
      s2 == [s1 EXCEPT !.free_var_matrix =
                         Matrix(Len(s1.primal_objective_c), Len(s1.dual_objective_b))]
      s3 == fill_groups(dualConstraintGroups, 1,
                        [sdp |-> s2, p |-> 0, asserted |-> TRUE])
      indices == initializeConstraintIndices(s3.sdp.dimensions, s3.sdp.degrees)
  IN  [sdp      |-> [s3.sdp EXCEPT !.constraint_indices = indices],
       asserted |-> /\ s3.asserted
                    /\ s3.p = Len(s3.sdp.primal_objective_c)
                    /\ SumSeq([j \in 1..Len(indices) |-> Len(indices[j])])
                         = Len(s3.sdp.primal_objective_c)]

\* Lists of up to MaxGroups groups of dimension 0..MaxDimension and degree
\* 0..MaxDegree, for dual objectives of 1..MaxDualObjective variables.
FillInit ==
  /\ pc = "fill"
  /\ \E n \in 0..MaxGroups, cols \in 1..MaxDualObjective :
     \E dims \in [1..n -> 0..MaxDimension], degs \in [1..n -> 0..MaxDegree] :
       args = [dual_objective_b |-> [c \in 1..cols |-> RInt(c)],
               objective_const  |-> Zero,
               dualConstraintGroups |->
                 [j \in 1..n |-> Dual_Constraint_Group(j, dims[j], degs[j], cols)]]
  /\ ret = <<>>
  /\ NoSolver

\* The call on an empty SDP: it returns the SDP, or an assertion ends the
\* program.
FillCall ==
  /\ pc = "fill"
  /\ \E r \in {fill_from_dual_constraint_groups(args.dual_objective_b,
                 args.objective_const, args.dualConstraintGroups, EmptySDP)} :
       IF r.asserted
       THEN ret' = r.sdp /\ pc' = "filled"
       ELSE ret' = <<>> /\ pc' = "aborted"
  /\ UNCHANGED <<args, solverVars>>

FillNext == FillCall

SpecFill == FillInit /\ [][FillNext]_vars

\* The group holding row p of the stacked constraint matrices, and the row
\* of p inside it (both counted from 0).
StackedGroup(groups, p) ==
  CHOOSE j \in 1..Len(groups) :
    LET before == SumSeq([i \in 1..(j - 1) |-> groups[i].constraintMatrix.rows])
    IN  before <= p /\ p < before + groups[j].constraintMatrix.rows

StackedRow(groups, p) ==
  p - SumSeq([i \in 1..(StackedGroup(groups, p) - 1) |->
                groups[i].constraintMatrix.rows])

\* C15: fill_from_dual_constraint_groups on an empty SDP gives
\* primal_objective_c = the groups' constraintConstants one after the other;
\* free_var_matrix with one row per entry of primal_objective_c and one
\* column per entry of dual_objective_b, row p being row p of the stacked
\* constraint matrices; dimensions[j] and degrees[j] = dim and degree of
\* group j; and one IndexTuple per row of free_var_matrix.
C15_FillFromGroups ==
  pc = "filled" =>
    LET groups == args.dualConstraintGroups
        B      == ret.free_var_matrix
    IN  /\ Len(ret.primal_objective_c)
             = SumSeq([j \in 1..Len(groups) |-> Len(groups[j].constraintConstants)])
        /\ \A p \in 0..(Len(ret.primal_objective_c) - 1) :
             ret.primal_objective_c[p + 1] =
               groups[StackedGroup(groups, p)].constraintConstants[StackedRow(groups, p) + 1]
        /\ B.rows = Len(ret.primal_objective_c)
        /\ B.cols = Len(ret.dual_objective_b)
        /\ ret.dual_objective_b = args.dual_objective_b
        /\ \A p \in 0..(B.rows - 1), n \in 0..(B.cols - 1) :
             get(B, p, n) = get(groups[StackedGroup(groups, p)].constraintMatrix,
                                StackedRow(groups, p), n)
        /\ Len(ret.dimensions) = Len(groups) /\ Len(ret.degrees) = Len(groups)
        /\ \A j \in 1..Len(groups) :
             ret.dimensions[j] = groups[j].dim /\ ret.degrees[j] = groups[j].degree
        /\ Len(ret.constraint_indices) = Len(groups)
        /\ \A p \in 0..(B.rows - 1) :
             Cardinality({<<j, t>> \in (1..Len(groups)) \X (1..B.rows) :
                            /\ t <= Len(ret.constraint_indices[j])
                            /\ ret.constraint_indices[j][t].p = p}) = 1
        /\ SumSeq([j \in 1..Len(groups) |-> Len(ret.constraint_indices[j])]) = B.rows

\* Two groups of several rows each have been stacked.
C15_Witness ==
  /\ pc = "filled"
  /\ Len(args.dualConstraintGroups) = 2
  /\ \A j \in 1..2 : args.dualConstraintGroups[j].constraintMatrix.rows > 1
  /\ args.dualConstraintGroups[1].dim # args.dualConstraintGroups[2].dim
  /\ ret.free_var_matrix.cols = 2

\* C16: SDP assembly rejects an input without groups and an input with a
\* group of dimension 0: fill_from_dual_constraint_groups returns an SDP
\* only for a non-empty list of groups of positive dimension.
C16_InvalidProblemRejected ==
  pc = "filled" =>
    /\ Len(args.dualConstraintGroups) > 0
    /\ \A j \in 1..Len(args.dualConstraintGroups) : args.dualConstraintGroups[j].dim > 0

(***************************************************************************)
(* BlockDiagonalMatrix::maxAbsElement                                      *)
(***************************************************************************)
\* Entries -MaxAbsRange..MaxAbsRange.
MaxAbsRange == 2

MaxAbsValues == {RInt(n) : n \in -MaxAbsRange..MaxAbsRange}

\* Diagonal prefixes and blocks of size 0..MaxAbsSize.
MaxAbsSize == 2

\* Matrices with a diagonal prefix of length 0..MaxAbsSize and no block or
\* one block of up to MaxAbsSize rows.
MaxAbsInit ==
  /\ pc = "call"
  /\ \E d \in 0..MaxAbsSize, n \in 0..MaxAbsSize :
     \E diag \in [1..d -> MaxAbsValues], a \in MaxAbsValues, b \in MaxAbsValues :
       args = [dim          |-> d + n,
               diagonalPart |-> diag,
               blocks       |->
                 IF n = 0 THEN <<>>
                 ELSE <<[rows |-> n, cols |-> n,
                         elements |-> [e \in 1..(n * n) |->
                                         IF e = 1 THEN a ELSE IF e = n * n THEN b
                                         ELSE Zero]]>>]
  /\ ret = <<>>
  /\ NoSolver

\* A.maxAbsElement()
MaxAbsCall ==
  /\ pc = "call"
  /\ \E stray \in StrayValues : ret' = BlockDiagonalMatrix_maxAbsElement(args, stray)
  /\ pc' = "done"
  /\ UNCHANGED <<args, solverVars>>

MaxAbsNext == MaxAbsCall

SpecMaxAbs == MaxAbsInit /\ [][MaxAbsNext]_vars

\* The entries a BlockDiagonalMatrix stores.
StoredEntries(A) ==
  {A.diagonalPart[i] : i \in 1..Len(A.diagonalPart)}
  \cup UNION {{A.blocks[b].elements[e] : e \in 1..Len(A.blocks[b].elements)} :
                b \in 1..Len(A.blocks)}

\* C18: maxAbsElement returns the largest absolute value among the stored
\* entries of the matrix (diagonal prefix and blocks), also when the
\* diagonal prefix has length 0: the value returned is the absolute value of
\* a stored entry and no stored entry exceeds it.
C18_MaxAbsElement ==
  (pc = "done" /\ StoredEntries(args) # {}) =>
    /\ \E a \in StoredEntries(args) : ret = RAbs(a)
    /\ \A a \in StoredEntries(args) : RLe(RAbs(a), ret)

\* The indices the iteration uses are inside the objects they index: block
\* k of X has its basis and its workspace, every e_j*r+k and e_j*s+k is
\* below the size of the pairing blocks of group j, and the tuples are as
\* many as the entries of x.
IndicesInRange ==
  /\ Len(X.blocks) = Len(sdp.bilinearBases)
  /\ Len(bilinearPairingsWorkspace) = Len(sdp.bilinearBases)
  /\ Len(bilinearPairingsXInv.blocks) = Len(sdp.bilinearBases)
  /\ \A j \in 1..Len(sdp.dimensions) :
       \A t \in 1..Len(constraintIndexTuples[j]) :
         \A b \in 1..Len(sdp.blocks[j]) :
           LET ej  == sdp.degrees[j] + 1
               tup == constraintIndexTuples[j][t]
               TY  == bilinearPairingsY.blocks[sdp.blocks[j][b] + 1]
               TX  == bilinearPairingsXInv.blocks[sdp.blocks[j][b] + 1]
           IN  /\ ej * tup.r + tup.k < TY.rows /\ ej * tup.s + tup.k < TY.rows
               /\ ej * tup.r + tup.k < TX.cols /\ ej * tup.s + tup.k < TX.cols
  /\ SumSeq([j \in 1..Len(constraintIndexTuples) |-> Len(constraintIndexTuples[j])])
       = Len(x)

\* The vectors whose element 0 feasibilityError reads store an element.
FeasibilityErrorInRange ==
  /\ Len(primalResidues.diagonalPart) > 0
  /\ \A b \in 1..Len(primalResidues.blocks) : Len(primalResidues.blocks[b].elements) > 0
  /\ Len(dualResidues) > 0

\* C17: for every SDP of bootstrapSDP, initialize() followed by
\* computeSearchDirection() indexes nothing out of range: the blocks, bases
\* and workspaces pair up, the pairing indices are below the pairing block
\* size, the tuples are as many as the entries of x, and every element read
\* is stored, those read by feasibilityError included.
C17_NoOutOfRange ==
  /\ IndicesInRange
  /\ pc \in {"predictor", "direction"} => FeasibilityErrorInRange

(***************************************************************************)
(* inverseCholeskyAndInverse on symmetric positive-definite matrices       *)
(***************************************************************************)
\* Diagonal entries 1..InverseRange.
InverseRange == 3

\* Symmetric positive-definite matrices: a diagonal prefix of length 0, 1
\* or 2 and one block, 1x1 or 2x2, with p on the diagonal and o off it,
\* |o| < p; the identity is among them.  work, AInvCholesky and AInv are
\* matrices of the same shape, as the constructor leaves them.
InverseInit ==
  /\ pc = "call"
  /\ \E d \in 0..2, n \in 1..2 :
     \E diag \in [1..d -> 1..InverseRange], p \in 1..InverseRange, o \in -1..1 :
       /\ o * o < p * p
       /\ n = 1 => o = 0
       /\ args = [A |-> [dim          |-> d + n,
                         diagonalPart |-> [i \in 1..d |-> RInt(diag[i])],
                         blocks       |->
                           <<[rows |-> n, cols |-> n,
                              elements |-> [e \in 1..(n * n) |->
                                              IF (e - 1) % n = (e - 1) \div n
                                              THEN RInt(p) ELSE RInt(o)]]>>],
                  work         |-> BlockDiagonalMatrix(d, <<n>>),
                  AInvCholesky |-> BlockDiagonalMatrix(d, <<n>>),
                  AInv         |-> BlockDiagonalMatrix(d, <<n>>)]
  /\ ret = <<>>
  /\ NoSolver

\* inverseCholeskyAndInverse(A, work, AInvCholesky, AInv): the three
\* matrices it writes; A is only read.
InverseCall ==
  /\ pc = "call"
  /\ \E r \in {inverseCholeskyAndInverse(args.A, args.work, args.AInvCholesky,
                                         args.AInv)} :
       args' = [args EXCEPT !.work = r[1], !.AInvCholesky = r[2], !.AInv = r[3]]
  /\ pc' = "done"
  /\ UNCHANGED <<ret, solverVars>>

InverseNext == InverseCall

SpecInverse == InverseInit /\ [][InverseNext]_vars

\* Entry (i, j) of L^T L (indices from 0).
TransposeProduct(L, i, j) ==
  RSum([k \in 1..L.rows |-> RMul(get(L, k - 1, i), get(L, k - 1, j))])

\* What C19 says of the matrices after the call, A0 being A before it.
InverseResult(A0, a) ==
  /\ a.A = A0
  /\ \A b \in 1..Len(a.A.blocks) :
       LET L == a.AInvCholesky.blocks[b]
           I == a.AInv.blocks[b]
       IN  /\ \A i \in 0..(L.rows - 1), j \in 0..(L.cols - 1) :
                 i < j => get(L, i, j) = Zero
           /\ \A i \in 0..(L.rows - 1), j \in 0..(L.cols - 1) :
                 TransposeProduct(L, i, j) = get(I, i, j)
  /\ \A i \in 1..Len(a.A.diagonalPart) :
       /\ RSign(a.AInvCholesky.diagonalPart[i]) > 0
       /\ RMul(RMul(a.AInvCholesky.diagonalPart[i], a.AInvCholesky.diagonalPart[i]),
               a.A.diagonalPart[i]) = One
       /\ RMul(a.AInv.diagonalPart[i], a.A.diagonalPart[i]) = One
  /\ a.A = BlockDiagonalMatrix_setIdentity(a.A) =>
       a.AInvCholesky = a.A /\ a.AInv = a.A

\* C19: for a symmetric positive-definite A, inverseCholeskyAndInverse
\* leaves A unchanged; every block of AInvCholesky is lower-triangular;
\* AInvCholesky^T * AInvCholesky = AInv in every block; a diagonal entry d
\* gives 1/sqrt(d) and 1/d; and the identity gives the identity twice.
C19_InverseCholeskyAndInverse ==
  [][pc' = "done" => \E A0 \in {args.A}, a \in {args'} : InverseResult(A0, a)]_vars

\* The call has factored a 2x2 block with off-diagonal entries next to a
\* diagonal entry that is not a square.
C19_Witness ==
  /\ pc = "done"
  /\ Len(args.A.diagonalPart) > 0
  /\ args.A.diagonalPart[1] = RInt(2)
  /\ args.AInvCholesky.diagonalPart[1] = <<1, 2, 2>>
  /\ args.A.blocks[1].rows = 2
  /\ get(args.A.blocks[1], 1, 0) = RInt(1)
  /\ ~IsZero(get(args.AInvCholesky.blocks[1], 1, 0))
  /\ ~IsZero(get(args.AInv.blocks[1], 0, 1))

(***************************************************************************)
(* minEigenvalueViaLanczos and its test (main.cpp)                         *)
(***************************************************************************)
\* The double literals 1.0e+50, 1.0e+51, 1.0e+52 and 1.0e+10 that start
\* min_min, min, min_old and error: kept as literals, each larger than
\* every number the exact arithmetic of this module can hold.
Huge(e) == <<"1.0e+", e>>
IsHuge(a) == Len(a) = 2

\* u is passed by value: the loop writes v[i]*a into the function's own
\* copy, and the caller's vector is what it was.
rescaleVectorInto(v, a, u) == u

\* y := alpha*x + beta*y
vectorScaleMultiplyAdd(alpha, x_, beta, y) ==
  [i \in 1..Len(y) |-> RAdd(RMul(alpha, x_[i]), RMul(beta, y[i]))]

dotProduct(u, v) == RSum([i \in 1..Len(u) |-> RMul(u[i], v[i])])

\* Rgemv("NoTranspose", m, n, alpha, A, lda, x, incx, beta, y, incy):
\* element i of the result is y[i*incy], element j of the operand is
\* x[j*incx].  A read beyond the stored elements of x finds stray, a
\* write beyond the stored elements of y does not reach y.
Rgemv(alpha, A, x_, incx, beta, y, incy, stray) ==
  [e \in 1..Len(y) |->
     IF (e - 1) % incy = 0 /\ (e - 1) \div incy < A.rows
     THEN LET i == (e - 1) \div incy
          IN  RAdd(RMul(alpha,
                        RSum([j \in 1..A.cols |->
                                RMul(get(A, i, j - 1),
                                     IF (j - 1) * incx < Len(x_)
                                     THEN x_[(j - 1) * incx + 1] ELSE stray)])),
                   RMul(beta, y[e]))
     ELSE y[e]]

\* The increments handed to Rgemv are x.size() and y.size().
vectorScaleMatrixMultiplyAdd(alpha, A, x_, beta, y, stray) ==
  Rgemv(alpha, A, x_, Len(x_), beta, y, Len(y), stray)

\* Whether the Rgemv call touches memory outside x or y.
vectorScaleMatrixMultiplyAdd_outside(A, x_, y) ==
  (A.cols - 1) * Len(x_) >= Len(x_) \/ (A.rows - 1) * Len(y) >= Len(y)

\* Rtrmv("Lower", "NoTranspose", "NotUnitDiagonal", ...): v := A v.
lowerTriangularMatrixTimesVector(A, v) ==
  [i \in 1..Len(v) |-> RSum([j \in 1..i |-> RMul(get(A, i - 1, j - 1), v[j])])]

\* Rtrmv("Lower", "Transpose", "NotUnitDiagonal", ...): v := A^T v.
lowerTriangularMatrixTransposeTimesVector(A, v) ==
  [i \in 1..Len(v) |->
     RSum([j \in 1..(Len(v) - i + 1) |->
             RMul(get(A, i + j - 2, i - 1), v[i + j - 1])])]

\* Rsteqr("I", n, d, e, Z, ldz, work, info) for n = 1, the quick return of
\* the routine: d and e are left alone and Z(1,1) = 1.  The program makes
\* no call with a larger n on the inputs below.
Rsteqr(n, d, e, Z_) ==
  IF n = 1 THEN [d |-> d, e |-> e, Z |-> [Z_ EXCEPT !.elements[1] = One]]
  ELSE CHOOSE unmodelled \in {} : TRUE

\* k < sqrt(Real(dim)) + 10, for integers k >= 0 and dim >= 0.
belowSqrtPlusTen(k, dim) == k - 10 < 0 \/ (k - 10) * (k - 10) < dim

\* beta > 1.0e-16: every positive number of the exact arithmetic is at
\* least 2^-31.
aboveTiny(beta) == RSign(beta) > 0

\* abs(min-min_old) > (1.0e-5)*abs(min)+(1.0e-8).  With a literal of
\* Huge on either side the difference is at least 9.0e+50 unless both
\* sides are the same literal.
eigenvalueUnsettled(min_, min_old) ==
  IF IsHuge(min_) \/ IsHuge(min_old) THEN min_ # min_old
  ELSE \E difference \in {RAbs(RSub(min_, min_old))} :
       \E relative \in {RMul(Q(1, 100000), RAbs(min_))} :
       \E tolerance \in {RAdd(relative, Q(1, 100000000))} :
         RGt(difference, tolerance)

\* abs(error*beta) > (1.0e-2)*abs(min)+(1.0e-4); evaluated only once
\* eigenvalueUnsettled is false, when min and error hold Rsteqr's results.
errorLarge(error, beta, min_) ==
  \E product \in {RAbs(RMul(error, beta))} :
  \E relative \in {RMul(Q(1, 100), RAbs(min_))} :
  \E tolerance \in {RAdd(relative, Q(1, 10000))} :
    RGt(product, tolerance)

\* The loop condition without its first conjunct k < dim.
lanczosCondition_unbounded(a) ==
  /\ belowSqrtPlusTen(a.k, a.dim)
  /\ aboveTiny(a.beta)
  /\ (IF eigenvalueUnsettled(a.min, a.min_old) THEN TRUE
      ELSE errorLarge(a.error, a.beta, a.min))

lanczosCondition(a) ==
  /\ a.k < a.dim
  /\ belowSqrtPlusTen(a.k, a.dim)
  /\ aboveTiny(a.beta)
  /\ (IF eigenvalueUnsettled(a.min, a.min_old) THEN TRUE
      ELSE errorLarge(a.error, a.beta, a.min))

\* if (kk >= sqrt((mpf_class)k) || k == dim-1 || k > sqrt((mpf_class)dim+9))
lanczosRefreshes(a) ==
  a.kk * a.kk >= a.k \/ a.k = a.dim - 1 \/ a.k * a.k > a.dim + 9

\* The part of one pass before the eigenvalue refresh: qold, value, q, w,
\* tmp, alpha, diagVec[k] and r.
lanczosStep(a, stray) ==
  CHOOSE res \in
    {[a EXCEPT !.qold = a.q, !.value = value, !.q = q1, !.tmp = tmp1,
               !.w = w3, !.alpha = alpha, !.diagVec[a.k + 1] = alpha,
               !.r = vectorScaleMultiplyAdd(RNeg(a.beta), a.q, One,
                       vectorScaleMultiplyAdd(RNeg(alpha), q1, One, w3))] :
       value \in {RInv(a.beta)},
       q1 \in {rescaleVectorInto(a.r, RInv(a.beta), a.q)},
       tmp1 \in {vectorScaleMatrixMultiplyAdd(One, a.X,
                   lowerTriangularMatrixTransposeTimesVector(a.L,
                     rescaleVectorInto(a.r, RInv(a.beta), a.q)),
                   Zero, a.tmp, stray)},
       w3 \in {lowerTriangularMatrixTimesVector(a.L,
                 vectorScaleMatrixMultiplyAdd(One, a.X,
                   lowerTriangularMatrixTransposeTimesVector(a.L,
                     rescaleVectorInto(a.r, RInv(a.beta), a.q)),
                   Zero, a.tmp, stray))},
       alpha \in {dotProduct(rescaleVectorInto(a.r, RInv(a.beta), a.q),
                    lowerTriangularMatrixTimesVector(a.L,
                      vectorScaleMatrixMultiplyAdd(One, a.X,
                        lowerTriangularMatrixTransposeTimesVector(a.L,
                          rescaleVectorInto(a.r, RInv(a.beta), a.q)),
                        Zero, a.tmp, stray)))}} : TRUE

\* The eigenvalue refresh of one pass: out, b, Rsteqr on the leading k+1
\* entries, min_old, min and error.
lanczosRefresh(a) ==
  CHOOSE res \in
    {[a EXCEPT !.kk = 0, !.out = s.d, !.b = s.e, !.Q = s.Z,
               !.min_old = a.min, !.min = s.d[1],
               !.error = s.Z.elements[a.k + 1]] :
       s \in {Rsteqr(a.k + 1,
                     [a.diagVec EXCEPT ![a.dim] = a.diagVec[a.k + 1]],
                     [a.diagVec2 EXCEPT ![a.dim] = Zero],
                     a.Q)}} : TRUE

\* The end of one pass: value = r.r, beta, diagVec2[k], ++k, ++kk.
lanczosAdvance(a) ==
  [a EXCEPT !.value = dotProduct(a.r, a.r),
            !.beta = RSqrt(dotProduct(a.r, a.r)),
            !.diagVec2[a.k + 1] = RSqrt(dotProduct(a.r, a.r)),
            !.k = a.k + 1, !.kk = a.kk + 1]

\* Diagonal entries of L.
LanczosRange == 3

\* The matrices of testMinEigenvalueViaLanczos, L = diag(1, 2, 3) and X
\* with 3 on the diagonal and X(1,2) = X(2,1) = 1, among diagonal L and X
\* with or without the off-diagonal pair.
LanczosL(l) == set(set(set(Matrix(3, 3), 0, 0, RInt(l[1])), 1, 1, RInt(l[2])), 2, 2, RInt(l[3]))
LanczosX(o) == set(set(Matrix_addDiagonal(Matrix(3, 3), RInt(3)), 1, 2, RInt(o)), 2, 1, RInt(o))

LanczosInit ==
  /\ pc = "minEigenvalueViaLanczos"
  /\ \E l \in [1..3 -> 1..LanczosRange], o \in {0, 1} :
       args = [L |-> LanczosL(l), X |-> LanczosX(o), Q |-> Matrix(3, 3),
               out |-> Vector(3, Zero), b |-> Vector(3, Zero),
               r |-> Vector(3, Zero), q |-> Vector(3, Zero),
               qold |-> Vector(3, Zero), w |-> Vector(3, Zero),
               tmp |-> Vector(3, Zero), diagVec |-> Vector(3, Zero),
               diagVec2 |-> Vector(3, Zero), workVec |-> Vector(3, Zero),
               alpha |-> Zero, value |-> Zero, min |-> Zero, min_old |-> Zero,
               min_min |-> Zero, error |-> Zero, beta |-> Zero,
               dim |-> 0, k |-> 0, kk |-> 0]
  /\ ret = Zero
  /\ NoSolver

\* The statements up to the loop.
minEigenvalueViaLanczos_enter ==
  /\ pc = "minEigenvalueViaLanczos"
  /\ args' = [args EXCEPT
                !.min = Huge(51), !.min_old = Huge(52), !.min_min = Huge(50),
                !.error = Huge(10), !.dim = args.X.rows, !.k = 0, !.kk = 0,
                !.diagVec = Vector(Len(args.diagVec), Huge(50)),
                !.diagVec2 = Vector(Len(args.diagVec2), Zero),
                !.q = Vector(Len(args.q), Zero),
                !.r = Vector(Len(args.r), One),
                !.beta = RSqrt(RInt(args.X.rows))]
  /\ pc' = "lanczos_loop"
  /\ UNCHANGED <<ret, solverVars>>

\* One pass of the loop.  Where the Rgemv call leaves x and y, the pass
\* goes on with what the reads found or the process stops there.
minEigenvalueViaLanczos_pass ==
  /\ pc = "lanczos_loop"
  /\ lanczosCondition(args)
  /\ \/ \E stray \in StrayValues :
          \E a1 \in {lanczosStep(args, stray)} :
            \E a2 \in {IF lanczosRefreshes(a1) THEN lanczosRefresh(a1) ELSE a1} :
              /\ args' = lanczosAdvance(a2)
              /\ pc' = "lanczos_loop"
     \/ /\ vectorScaleMatrixMultiplyAdd_outside(args.X, args.w, args.tmp)
        /\ args' = args
        /\ pc' = "lanczos_crashed"
  /\ UNCHANGED <<ret, solverVars>>

\* return min - abs(error*beta);
minEigenvalueViaLanczos_return ==
  /\ pc = "lanczos_loop"
  /\ ~lanczosCondition(args)
  /\ ret' = RSub(args.min, RAbs(RMul(args.error, args.beta)))
  /\ pc' = "lanczos_returned"
  /\ UNCHANGED <<args, solverVars>>

LanczosNext ==
  \/ minEigenvalueViaLanczos_enter
  \/ minEigenvalueViaLanczos_pass
  \/ minEigenvalueViaLanczos_return

SpecLanczos == LanczosInit /\ [][LanczosNext]_vars

\* testMinEigenvalueViaLanczos: Work1 = L^T, Work2 = X Work1, Y = L Work2.
Matrix_transpose(A) == [A EXCEPT !.elements = [e \in 1..(A.rows * A.cols) |-> get(A, (e - 1) \div A.rows, (e - 1) % A.rows)]]
testMinEigenvalueViaLanczos_Y(L, X_) ==
  matrixScaleMultiplyAdd(One, L,
    matrixScaleMultiplyAdd(One, X_, Matrix_transpose(L), Zero, Matrix(3, 3)),
    Zero, Matrix(3, 3))

\* Determinant of the 2x2 matrix of rows and columns i, j of A, and of a
\* 3x3 matrix A.
Minor2(A, i, j) == RSub(RMul(get(A, i, i), get(A, j, j)), RMul(get(A, i, j), get(A, j, i)))
Det3(A) ==
  RAdd(RSub(RMul(get(A, 0, 0), RSub(RMul(get(A, 1, 1), get(A, 2, 2)), RMul(get(A, 1, 2), get(A, 2, 1)))),
            RMul(get(A, 0, 1), RSub(RMul(get(A, 1, 0), get(A, 2, 2)), RMul(get(A, 1, 2), get(A, 2, 0))))),
       RMul(get(A, 0, 2), RSub(RMul(get(A, 1, 0), get(A, 2, 1)), RMul(get(A, 1, 1), get(A, 2, 0)))))

\* lam is the least eigenvalue of the symmetric 3x3 matrix A: A - lam*I
\* is singular and positive semidefinite (every principal minor >= 0).
IsMinEigenvalue(A, lam) ==
  \E S \in {Matrix_addDiagonal(A, RNeg(lam))} :
    /\ IsZero(Det3(S))
    /\ \A i \in 0..2 : RGe(get(S, i, i), Zero)
    /\ \A i \in 0..2 : \A j \in 0..2 : i < j => RGe(Minor2(S, i, j), Zero)

\* Integer eigenvalues looked for.
EigenvalueRange == 30

\* Rsyev returns the eigenvalues in ascending order; eigenvalues[0] is
\* the least of them.
minEigenvalueViaQR(A) ==
  CHOOSE lam \in {RInt(n) : n \in 0..EigenvalueRange} : IsMinEigenvalue(A, lam)

\* C20: for L = diag(1,2,3) and X = [[3,0,0],[0,3,1],[0,1,3]] the value
\* minEigenvalueViaLanczos returns is at most the least eigenvalue of
\* L X L^T that minEigenvalueViaQR computes, and is within
\* max(0.01*|lambda_min|, 0.0001) of it.
C20_LanczosAgreesWithQR ==
  (/\ pc = "lanczos_returned"
   /\ args.L = LanczosL(<<1, 2, 3>>)
   /\ args.X = LanczosX(1))
  => \E lam \in {minEigenvalueViaQR(testMinEigenvalueViaLanczos_Y(args.L, args.X))} :
       /\ RLe(ret, lam)
       /\ RLe(RSub(lam, ret), max(RMul(Q(1, 100), RAbs(lam)), Q(1, 10000)))

(***************************************************************************)
(* computePredictorRMatrix and computeCorrectorRMatrix on symmetric        *)
(* arguments (main.cpp)                                                    *)
(***************************************************************************)
\* Entries of the symmetric arguments are 0..RMatrixRange.
RMatrixRange == 1

\* A BlockDiagonalMatrix with a diagonal prefix of one entry d and one
\* symmetric 2x2 block [[a, b], [b, c]].
SymmetricOperand(d, a, b, c) ==
  [dim |-> 3, diagonalPart |-> <<RInt(d)>>,
   blocks |-> <<[rows |-> 2, cols |-> 2,
                 elements |-> <<RInt(a), RInt(b), RInt(b), RInt(c)>>]>>]

SymmetricOperands ==
  {SymmetricOperand(1, a, b, c) : a \in 0..RMatrixRange, b \in 0..RMatrixRange, c \in 0..RMatrixRange}

\* The directions handed to computeCorrectorRMatrix.
SymmetricDirections ==
  {SymmetricOperand(0, 0, 0, 0), SymmetricOperand(1, 1, 0, 0), SymmetricOperand(1, 0, 1, 0)}

RMatrixInit ==
  /\ pc = "call"
  /\ \E A \in SymmetricOperands, B \in SymmetricOperands :
     \E dA \in SymmetricDirections, dB \in SymmetricDirections :
       args = [beta |-> Q(1, 2), mu |-> RInt(2), X |-> A, Y |-> B,
               dX |-> dA, dY |-> dB, R |-> BlockDiagonalMatrix(1, <<2>>)]
  /\ ret = <<>>
  /\ NoSolver

\* computePredictorRMatrix(betaPredictor, mu, X, Y, Rc)
RMatrixPredictorCall ==
  /\ pc = "call"
  /\ ret' = computePredictorRMatrix(args.beta, args.mu, args.X, args.Y, args.R)
  /\ pc' = "predictorR"
  /\ UNCHANGED <<args, solverVars>>

\* computeCorrectorRMatrix(betaCorrector, mu, X, dX, Y, dY, Rc)
RMatrixCorrectorCall ==
  /\ pc = "call"
  /\ ret' = computeCorrectorRMatrix(args.beta, args.mu, args.X, args.dX,
                                    args.Y, args.dY, args.R)
  /\ pc' = "correctorR"
  /\ UNCHANGED <<args, solverVars>>

RMatrixNext == RMatrixPredictorCall \/ RMatrixCorrectorCall

SpecRMatrix == RMatrixInit /\ [][RMatrixNext]_vars

\* Entry (r, c) of the product of the 2x2 matrices A and B.
ProductEntry(A, B, r, c) ==
  RAdd(RMul(get(A, r, 0), get(B, 0, c)), RMul(get(A, r, 1), get(B, 1, c)))

\* Entry (r, c) of beta mu I - X Y - dX dY in block 1, with or without
\* the dX dY term.
RMatrixEntry(a, withDirections, r, c) ==
  RSub(RSub(IF r = c THEN RMul(a.beta, a.mu) ELSE Zero,
            ProductEntry(a.X.blocks[1], a.Y.blocks[1], r, c)),
       IF withDirections THEN ProductEntry(a.dX.blocks[1], a.dY.blocks[1], r, c)
       ELSE Zero)

BlockSymmetric(M) == \A r \in 0..(M.rows - 1) : \A c \in 0..(M.cols - 1) : get(M, r, c) = get(M, c, r)

Commute(A, B) == \A r \in 0..1 : \A c \in 0..1 : ProductEntry(A, B, r, c) = ProductEntry(B, A, r, c)

PrimalBlocks == {<<1, 1, 1, 2>>, <<4, 2, 2, 2>>, <<1, 0, 0, 1>>, <<2, 1, 1, 1>>}
DualBlocks == {<<1, 0, 0, 2>>, <<1, 0, 0, 1>>, <<2, 1, 1, 1>>, <<1, 1, 1, 2>>}

\* A shaped like the solver's matrices, with a diagonal prefix of ones and
\* every 2x2 block holding m.
BlockIterate(A, m) ==
  [A EXCEPT
     !.diagonalPart = [i \in 1..Len(A.diagonalPart) |-> One],
     !.blocks = [b \in 1..Len(A.blocks) |->
                   [A.blocks[b] EXCEPT !.elements = [e \in 1..4 |-> RInt(m[e])]]]]

\* initialize() fills x with 1, and the caller then puts its own iterate
\* in the public members X and Y.
setBlockIterate ==
  /\ pc = "constructed"
  /\ x' = [p \in 1..Len(x) |-> One]
  /\ \E mx \in PrimalBlocks, my \in DualBlocks :
       /\ X' = BlockIterate(X, mx)
       /\ Y' = BlockIterate(Y, my)
  /\ pc' = "iterate"
  /\ UNCHANGED <<args, ret, sdp, constraintIndexTuples, dx, dualResidues,
                 XInvYDiag, XInv, XInvCholesky, Z, dX, dY, Rc, primalResidues,
                 bilinearPairingsXInv, bilinearPairingsY, schurComplement,
                 schurComplementCholesky, XInvWorkspace,
                 bilinearPairingsWorkspace>>

\* The SDPs with one 2x2 polynomial matrix of degree 0.
BlockDirectionInit ==
  \E in \in {i \in SDPInputs : i.positiveMatrixPols = <<Pol_2x2_deg0>>} :
    SDPSolver(parseBootstrapSDP(in))

BlockDirectionNext ==
  \/ setBlockIterate
  \/ computeSchurComplementCholesky
  \/ stepDualResidues
  \/ stepPrimalResidues
  \/ stepPredictor
  \/ stepCorrector

SpecBlockDirection == BlockDirectionInit /\ [][BlockDirectionNext]_vars

AllBlocksSymmetric(A) == \A b \in 1..Len(A.blocks) : BlockSymmetric(A.blocks[b])

\* Step lengths tried for X + a dX and Y + a dY.
StepLengths == {Q(1, 2), One, RInt(2)}

\* C22: after each call of computeSearchDirectionWithRMatrix (the
\* predictor's and the corrector's) every block of Z, dX and dY is
\* symmetric, whether or not Rc is, and so are X + a dX and Y + a dY.
C22_DirectionSymmetric ==
  pc \in {"predictor", "direction"} =>
    /\ AllBlocksSymmetric(Z)
    /\ AllBlocksSymmetric(dX)
    /\ AllBlocksSymmetric(dY)
    /\ \A a \in StepLengths :
         /\ AllBlocksSymmetric(BlockDiagonalMatrix_addAssign(X, a, dX))
         /\ AllBlocksSymmetric(BlockDiagonalMatrix_addAssign(Y, a, dY))

\* The corrector solve has run on an R that is not symmetric, and the
\* directions have off-diagonal entries.
C22_Witness ==
  /\ pc = "direction"
  /\ ~AllBlocksSymmetric(Rc)
  /\ get(dX.blocks[1], 0, 1) # Zero
  /\ get(dY.blocks[1], 0, 1) # Zero
  /\ get(Z.blocks[1], 0, 1) # Zero

\* C23: in computeSearchDirection the inverse of X, the pairings, the
\* Schur assembly and its factorization happen once, each from the result
\* of the one before, and before any direction solve; the predictor solve
\* and then the corrector solve follow, on the same Schur factor, residues
\* and mu, and the corrector's R and centering parameter are computed from
\* the dX and dY the predictor solve left.
C23_SearchDirectionOrder ==
  [][/\ (pc' = "assembled" /\ pc # "assembled")
          => /\ pc = "iterate"
             /\ UNCHANGED <<Z, dx, dX, dY, Rc>>
             /\ \E XI \in {XInv'}, pX \in {bilinearPairingsXInv'},
                   pY \in {bilinearPairingsY'}, S \in {schurComplement'},
                   C \in {schurComplementCholesky'} :
                  /\ XI = inverseCholeskyAndInverse(X, XInvWorkspace, XInvCholesky, XInv)[3]
                  /\ pX = computeBilinearPairings(XI, sdp.bilinearBases,
                            bilinearPairingsWorkspace, bilinearPairingsXInv)[2]
                  /\ pY = computeBilinearPairings(Y, sdp.bilinearBases,
                            bilinearPairingsWorkspace, bilinearPairingsY)[2]
                  /\ S = addSchurBlocks(sdp, pX, pY, constraintIndexTuples,
                           diagonalCongruenceTranspose(
                             Pointer(componentProduct(XI.diagonalPart, Y.diagonalPart,
                                                      XInvYDiag), 0),
                             sdp.polMatrixValues, 0, 0, schurComplement))
                  /\ C = choleskyDecomposition(S, schurComplementCholesky)
     /\ (pc' # pc /\ pc' \in {"dualResidues", "primalResidues", "predictor", "direction"})
          => UNCHANGED <<XInv, XInvCholesky, bilinearPairingsXInv, bilinearPairingsY,
                         schurComplement, schurComplementCholesky>>
     /\ (pc' # pc /\ pc' \notin {"predictor", "direction"})
          => UNCHANGED <<Z, dx, dX, dY, Rc>>
     /\ pc' = "predictor"
          => /\ pc = "primalResidues"
             /\ UNCHANGED <<dualResidues, primalResidues>>
             /\ args'.mu = RDiv(frobeniusProductSymmetric(X, Y), RInt(X.dim))
     /\ pc' = "direction"
          => /\ pc = "predictor"
             /\ UNCHANGED <<dualResidues, primalResidues, args>>
             /\ \E R \in {Rc'}, bm \in {RMul(correctorCenteringParameter(
                                              SolverParameters, args.feasErr,
                                              betaAuxiliary(X, dX, Y, dY)), args.mu)} :
                  \A b \in 1..Len(R.blocks) : \A r \in 0..1 : \A c \in 0..1 :
                    R.blocks[b].rows = 2 =>
                      get(R.blocks[b], r, c) =
                        RSub(RSub(IF r = c THEN bm ELSE Zero,
                                  ProductEntry(X.blocks[b], Y.blocks[b], r, c)),
                             ProductEntry(dX.blocks[b], dY.blocks[b], r, c))]_vars

\* Both solves have run, and the predictor's dX and dY entered the
\* corrector's R: Rc is not beta mu I - X Y for any beta mu.
C23_Witness ==
  /\ pc = "direction"
  /\ args.mu # Zero
  /\ \E b \in 1..Len(Rc.blocks) :
       /\ Rc.blocks[b].rows = 2
       /\ get(Rc.blocks[b], 0, 1) # RNeg(ProductEntry(X.blocks[b], Y.blocks[b], 0, 1))

\* C24: after rescaleVectorInto(r, value, q) in a pass of the Lanczos loop
\* the caller's q holds r[i]*value for every i, with value = 1/beta of the
\* r and beta the pass started from.
C24_RescaleVectorInto ==
  [][(pc = "lanczos_loop" /\ pc' = "lanczos_loop")
       => \E q1 \in {args'.q} :
            \A i \in 1..Len(q1) : q1[i] = RMul(args.r[i], RInv(args.beta))]_vars

\* The calls solve() makes on the solver, in order, for the arguments a.
SolveCalls(a) ==
  (IF a.exists_in THEN <<"load_checkpoint">> ELSE <<>>)
  \o <<"run">>
  \o (IF a.no_final_checkpoint THEN <<>> ELSE <<"save_checkpoint">>)
  \o <<"save_solution">>

IsPrefix(s, t) == Len(s) <= Len(t) /\ \A i \in 1..Len(s) : s[i] = t[i]

\* C25: solve() loads the checkpoint only if checkpoint_file_in exists and
\* before run; after run, whatever the terminate reason, it saves the
\* final checkpoint iff no_final_checkpoint is false and before
\* save_solution, calls save_solution once, and returns 0.
C25_CheckpointOrder ==
  /\ IsPrefix(args.log, SolveCalls(args))
  /\ args.loads = (IF args.exists_in /\ Len(args.log) > 0 THEN 1 ELSE 0)
  /\ pc \in {"solve_checkpointed", "solve_saved", "solve_returned"} =>
       /\ args.reason \in TerminateReasons
       /\ args.checkpoints = (IF args.no_final_checkpoint THEN 0 ELSE 1)
  /\ pc \in {"solve_saved", "solve_returned"} =>
       /\ args.solutions = 1
       /\ args.log = SolveCalls(args)
  /\ pc \notin {"solve_saved", "solve_returned"} => args.solutions = 0
  /\ pc = "solve_returned" => ret = 0

\* solve() has returned after a run that ended on the iteration limit, with
\* a checkpoint loaded and the final one saved.
C25_Witness ==
  /\ pc = "solve_returned"
  /\ args.reason = "MaxIterationsExceeded"
  /\ args.exists_in
  /\ ~args.no_final_checkpoint
  /\ args.log = <<"load_checkpoint", "run", "save_checkpoint", "save_solution">>

\* C26: no statement of computeSearchDirection writes the iterate: x, X
\* and Y are the same after each of its steps as before it.
C26_IterateUnchanged ==
  [][(pc' # pc /\ pc' \in {"assembled", "dualResidues", "primalResidues",
                           "predictor", "direction"})
       => UNCHANGED <<x, X, Y>>]_vars

\* computeSearchDirection has run to its end on an iterate the caller set,
\* and has written the directions.
C26_Witness ==
  /\ pc = "direction"
  /\ X.blocks[1].elements = <<RInt(4), RInt(2), RInt(2), RInt(2)>>
  /\ Y.blocks[1].elements = <<RInt(2), RInt(1), RInt(1), RInt(1)>>
  /\ \E p \in 1..Len(dx) : dx[p] # Zero
  /\ dX.blocks[1] # Matrix(2, 2)
  /\ dY.blocks[1] # Matrix(2, 2)

(***************************************************************************)
(* constraintMatrixWeightedSum on a result that holds an earlier sum       *)
(***************************************************************************)
\* The group and the tuple of constraint index p.
constraintOfIndex(tuplesOf, p) ==
  CHOOSE jt \in UNION {{<<j, tuplesOf[j][i]>> : i \in 1..Len(tuplesOf[j])} :
                         j \in 1..Len(tuplesOf)} :
    jt[2].p = p

\* zero + sum_{q >= p} xv_q F_q, with the matrices F that printSDPData prints.
RECURSIVE weightedSumOfF(_, _, _, _, _)
weightedSumOfF(s0, tuplesOf, xv, p, zero) ==
  IF p >= Len(xv) THEN zero
  ELSE LET jt == constraintOfIndex(tuplesOf, p)
       IN  BlockDiagonalMatrix_addAssign(
             weightedSumOfF(s0, tuplesOf, xv, p + 1, zero),
             xv[p + 1], printSDPData_F(s0, jt[1], jt[2]))

\* C27: the matrix written by constraintMatrixWeightedSum depends only on sdp
\* and x: after the corrector solve, which calls it on the dX that holds the
\* predictor direction, dX equals primalResidues + sum_p dx_p F_p.
C27_WeightedSumOverwrites ==
  pc = "direction" =>
    dX = BlockDiagonalMatrix_addAssign(
           weightedSumOfF(sdp, constraintIndexTuples, dx, 0,
                          BlockDiagonalMatrix_setZero(dX)),
           One, primalResidues)

\* The same statement after the predictor solve, where dX was still zero
\* when constraintMatrixWeightedSum was called.
FirstWeightedSumIsSumOfF ==
  pc = "predictor" =>
    dX = BlockDiagonalMatrix_addAssign(
           weightedSumOfF(sdp, constraintIndexTuples, dx, 0,
                          BlockDiagonalMatrix_setZero(dX)),
           One, primalResidues)

(***************************************************************************)
(* computeSchurComplementCholesky() called again on the same iterate       *)
(***************************************************************************)
\* A second call of computeSchurComplementCholesky() with X and Y as the
\* first call found them; every output still holds what the first call left.
computeSchurComplementCholesky_again ==
  /\ pc = "assembled"
  /\ \E inv \in {inverseCholeskyAndInverse(X, XInvWorkspace, XInvCholesky, XInv)} :
     \E pX \in {computeBilinearPairings(inv[3], sdp.bilinearBases,
                                        bilinearPairingsWorkspace, bilinearPairingsXInv)} :
     \E pY \in {computeBilinearPairings(Y, sdp.bilinearBases, pX[1], bilinearPairingsY)} :
     \E diag \in {componentProduct(inv[3].diagonalPart, Y.diagonalPart, XInvYDiag)} :
     \E S0 \in {diagonalCongruenceTranspose(Pointer(diag, 0), sdp.polMatrixValues,
                                            0, 0, schurComplement)} :
     \E S \in {addSchurBlocks(sdp, pX[2], pY[2], constraintIndexTuples, S0)} :
       /\ XInvWorkspace' = inv[1]
       /\ XInvCholesky' = inv[2]
       /\ XInv' = inv[3]
       /\ bilinearPairingsXInv' = pX[2]
       /\ bilinearPairingsY' = pY[2]
       /\ bilinearPairingsWorkspace' = pY[1]
       /\ XInvYDiag' = diag
       /\ schurComplement' = S
       /\ schurComplementCholesky' = choleskyDecomposition(S, schurComplementCholesky)
  /\ pc' = "reassembled"
  /\ UNCHANGED <<args, ret, sdp, constraintIndexTuples, x, dx, dualResidues,
                 X, Y, Z, dX, dY, Rc, primalResidues>>

ReassemblyNext == SolverNext \/ computeSchurComplementCholesky_again

\* The solvers that assemble twice: one group of degree 1, one group of
\* dimension 2, and two groups.
ReassemblyInit ==
  \E in \in {i \in SDPInputs :
               i.positiveMatrixPols \in {<<Pol_1x1_deg1>>, <<Pol_2x2_deg0>>,
                                         <<Pol_1x1_deg0, Pol_1x1_deg1>>}} :
    SDPSolver(parseBootstrapSDP(in))

SpecReassembly == ReassemblyInit /\ [][ReassemblyNext]_vars

\* The outputs of a freshly constructed solver of s0: X-shaped matrices, the
\* bilinear pairings and their workspace.
constructedMatrix(s0) == BlockDiagonalMatrix(s0.objDimension, psdMatrixBlockDims(s0))
constructedPairings(s0) == BlockDiagonalMatrix(0, bilinearPairingBlockDims(s0))
constructedWorkspace(s0) ==
  [b \in 1..Len(s0.bilinearBases) |->
     Matrix(constructedMatrix(s0).blocks[b].rows, constructedPairings(s0).blocks[b].cols)]

\* The assembly from the pairings pX of X^-1 (inv is what
\* inverseCholeskyAndInverse left) and from B.
schurComplementOfPairings(s0, tuplesOf, B, inv, pX) ==
  addSchurBlocks(s0, pX[2],
    computeBilinearPairings(B, s0.bilinearBases, pX[1], constructedPairings(s0))[2],
    tuplesOf,
    diagonalCongruenceTranspose(
      Pointer(componentProduct(inv[3].diagonalPart, B.diagonalPart,
                               Vector(s0.objDimension, Zero)), 0),
      s0.polMatrixValues, 0, 0, Matrix(s0.numConstraints, s0.numConstraints)))

schurComplementOfInverse(s0, tuplesOf, B, inv) ==
  CHOOSE S \in {schurComplementOfPairings(s0, tuplesOf, B, inv, pX) :
                  pX \in {computeBilinearPairings(inv[3], s0.bilinearBases,
                            constructedWorkspace(s0), constructedPairings(s0))}} : TRUE

\* The Schur complement that a freshly constructed solver of s0 assembles
\* from the iterate (A, B).
schurComplementOf(s0, tuplesOf, A, B) ==
  CHOOSE S \in {schurComplementOfInverse(s0, tuplesOf, B, inv) :
                  inv \in {inverseCholeskyAndInverse(A, constructedMatrix(s0),
                             constructedMatrix(s0), constructedMatrix(s0))}} : TRUE

\* C28: the Schur complement left by computeSchurComplementCholesky(), on
\* its first call, on a call after the iterate was moved and on a second call
\* with the same X and Y, is the one a freshly constructed solver assembles
\* from the current X and Y: nothing of an earlier assembly is added onto.
C28_SchurComplementOverwritten ==
  pc \in {"assembled", "reassembled"} =>
    schurComplement = schurComplementOf(sdp, constraintIndexTuples, X, Y)

\* A second call on an iterate that the caller had set.
C28_Witness ==
  /\ pc = "reassembled"
  /\ X = Iterate(X, 2, 1)
  /\ Y = Iterate(Y, 1, -1)
  /\ Len(sdp.dimensions) = 2
  /\ \E e \in 1..Len(schurComplement.elements) : schurComplement.elements[e] # Zero

(***************************************************************************)
(* SDPSolver::initialize() called on a solver that is not fresh            *)
(***************************************************************************)
\* initialize() is repeated while the diagonal prefix of X is at most this.
MaxDiagonal == 6

\* SDPSolver::initialize() called again: after an earlier initialize() or
\* after the caller moved X and Y.
initialize_again ==
  /\ pc \in {"initialized", "iterate"}
  /\ \A i \in 1..Len(X.diagonalPart) : RLe(X.diagonalPart[i], RInt(MaxDiagonal))
  /\ x' = [p \in 1..Len(x) |-> One]
  /\ X' = initialize_X(X)
  /\ Y' = BlockDiagonalMatrix_setIdentity(Y)
  /\ pc' = "initialized"
  /\ UNCHANGED <<args, ret, sdp, constraintIndexTuples, dx, dualResidues,
                 XInvYDiag, XInv, XInvCholesky, Z, dX, dY, Rc, primalResidues,
                 bilinearPairingsXInv, bilinearPairingsY, schurComplement,
                 schurComplementCholesky, XInvWorkspace,
                 bilinearPairingsWorkspace>>

ReinitializeNext == initialize \/ setIterate \/ initialize_again

SpecReinitialize == SolverInit /\ [][ReinitializeNext]_vars

\* C29: initialize() is a reset: in whatever state it was called, it leaves
\* x, X and Y as it leaves them on a freshly constructed solver, the diagonal
\* prefix of X included.
C29_InitializeResets ==
  pc = "initialized" =>
    /\ x = [p \in 1..Len(x) |-> One]
    /\ X = initialize_X(constructedMatrix(sdp))
    /\ Y = BlockDiagonalMatrix_setIdentity(Y)

\* What does hold: x, Y and the blocks of X are reset.
InitializeResetsBlocks ==
  pc = "initialized" =>
    /\ x = [p \in 1..Len(x) |-> One]
    /\ X.blocks =
         initialize_X(constructedMatrix(sdp)).blocks
    /\ Y = BlockDiagonalMatrix_setIdentity(Y)

(***************************************************************************)
(* The loop of minEigenvalueViaLanczos on matrices of every small size     *)
(***************************************************************************)
\* X.rows of the matrices handed to minEigenvalueViaLanczos.
MaxLanczosDim == 16

\* What the numerical part of a pass leaves: r (it depends on L, X and on
\* what the Rgemv call reads outside w), and, once Rsteqr has run, out[0]
\* and Q.elements[k].
LoopResidues(dim) == {Vector(dim, Zero), [i \in 1..dim |-> IF i = 1 THEN One ELSE Zero]}
LoopEigenvalues == {Zero, RInt(-1)}
LoopErrors == {Zero, One}

LanczosLoopInit ==
  /\ pc = "minEigenvalueViaLanczos"
  /\ \E dim \in 1..MaxLanczosDim :
       args = [L |-> Matrix_setIdentity(Matrix(dim, dim)),
               X |-> Matrix_addDiagonal(Matrix(dim, dim), RInt(3)),
               Q |-> Matrix(dim, dim),
               out |-> Vector(dim, Zero), b |-> Vector(dim, Zero),
               r |-> Vector(dim, Zero), q |-> Vector(dim, Zero),
               qold |-> Vector(dim, Zero), w |-> Vector(dim, Zero),
               tmp |-> Vector(dim, Zero), diagVec |-> Vector(dim, Zero),
               diagVec2 |-> Vector(dim, Zero), workVec |-> Vector(dim, Zero),
               alpha |-> Zero, value |-> Zero, min |-> Zero, min_old |-> Zero,
               min_min |-> Zero, error |-> Zero, beta |-> Zero,
               dim |-> 0, k |-> 0, kk |-> 0]
  /\ ret = Zero
  /\ NoSolver

\* The loop condition found true.
minEigenvalueViaLanczos_while ==
  /\ pc = "lanczos_loop"
  /\ lanczosCondition(args)
  /\ pc' = "lanczos_body"
  /\ UNCHANGED <<args, ret, solverVars>>

\* The body of the loop with the results of its numerical part drawn from
\* the sets above: q keeps its zeros (rescaleVectorInto), so alpha is 0.
minEigenvalueViaLanczos_body ==
  /\ pc = "lanczos_body"
  /\ \/ \E r \in LoopResidues(args.dim), m \in LoopEigenvalues, e \in LoopErrors :
          \E a1 \in {[args EXCEPT !.qold = args.q, !.value = RInv(args.beta),
                                  !.alpha = Zero, !.diagVec[args.k + 1] = Zero,
                                  !.r = r]} :
            \E a2 \in {IF lanczosRefreshes(a1)
                       THEN [a1 EXCEPT !.kk = 0, !.min_old = a1.min,
                                       !.min = m, !.error = e]
                       ELSE a1} :
              /\ args' = lanczosAdvance(a2)
              /\ pc' = "lanczos_loop"
     \/ /\ vectorScaleMatrixMultiplyAdd_outside(args.X, args.w, args.tmp)
        /\ args' = args
        /\ pc' = "lanczos_crashed"
  /\ UNCHANGED <<ret, solverVars>>

LanczosLoopNext ==
  \/ minEigenvalueViaLanczos_enter
  \/ minEigenvalueViaLanczos_while
  \/ minEigenvalueViaLanczos_body
  \/ minEigenvalueViaLanczos_return

SpecLanczosLoop == LanczosLoopInit /\ [][LanczosLoopNext]_vars

\* The function is straight-line code around one loop: the statement at the
\* program position is executed.
SpecLanczosLoopFair == SpecLanczosLoop /\ WF_pc(LanczosLoopNext)

\* C30: the loop of minEigenvalueViaLanczos terminates: every pass starts
\* with k < dim, writes diagVec and diagVec2 at index k inside their dim
\* entries and increases k by exactly 1, so that k never exceeds dim, and in
\* the end the function has returned or the process has stopped.
C30_LanczosTerminates ==
  /\ [][(pc = "lanczos_body" /\ pc' = "lanczos_loop") =>
          /\ args.k < args.dim
          /\ args.k + 1 \in DOMAIN args.diagVec
          /\ args.k + 1 \in DOMAIN args.diagVec2
          /\ args'.diagVec2[args.k + 1] = args'.beta
          /\ args'.k = args.k + 1
          /\ args'.dim = args.dim]_vars
  /\ [](pc \in {"lanczos_loop", "lanczos_body", "lanczos_returned", "lanczos_crashed"} =>
          /\ args.k <= args.dim
          /\ Len(args.diagVec) = args.dim /\ Len(args.diagVec2) = args.dim)
  /\ <>(pc \in {"lanczos_returned", "lanczos_crashed"})

\* dim passes ran and the loop was left because k reached dim.
C30_Witness ==
  /\ pc = "lanczos_returned"
  /\ args.dim >= 3
  /\ args.k = args.dim
  /\ aboveTiny(args.beta)
=============================================================================
